---- MODULE Spec2Model ----
(***************************************************************************)
(* Couple Planner: the planner state synchronization engine of src/App.tsx *)
(* (React component App) together with the planner_state row of the        *)
(* Supabase schema (src/unnamed/part_000).                                 *)
(*                                                                         *)
(* Two clients (one per member slot) share one planner.  Each client is a  *)
(* React component: a committed render (state, profile.planner_id,         *)
(* plannerLoading), a queue of setState updates that the next render       *)
(* applies, mutable refs, a debounce timer, and asynchronous requests to   *)
(* the store whose continuations are the only suspension points.           *)
(***************************************************************************)
EXTENDS Integers, Sequences, FiniteSets, TLC

\* ------------------------------------------------------------------ bounds
MaxIntents == 2
MaxLogouts == 1
MaxStoreErrors == 1
MaxVersion == 3
MaxFewIntents == 1
MaxSoloIntents == 3
MaxGoalOps == 3
MaxMonthsAway == 7
MaxTries == 1

\* ------------------------------------------------------- program constants
DefaultMonthlyLimit == 2000
LogCap == 50

Clients == {1, 2}
Limits == {1500}

Other(c) == IF c = 1 THEN 2 ELSE 1

Min(a, b) == IF a < b THEN a ELSE b

\* -------------------------------------------------------------------- dates
\* A JavaScript Date at local midnight: [y, m, d] with the month counted from
\* 0 as getMonth() does.  An event's date is the local midnight of the day
\* that was clicked, and both clients are in one time zone.
\* The number of the day, counted from 1970-01-01, of a date of the calendar.
DayNumber(y, m, d) ==
  LET yy == IF m <= 1 THEN y - 1 ELSE y
      era == yy \div 400
      yoe == yy - era * 400
      mp == IF m > 1 THEN m - 2 ELSE m + 10
      doy == (153 * mp + 2) \div 5 + d - 1
      doe == yoe * 365 + yoe \div 4 - yoe \div 100 + doy
  IN era * 146097 + doe - 719468

\* The date of the calendar with a given day number.
DateOfDay(z) ==
  LET zz == z + 719468
      era == zz \div 146097
      doe == zz - era * 146097
      yoe == (doe - doe \div 1460 + doe \div 36524 - doe \div 146096) \div 365
      doy == doe - (365 * yoe + yoe \div 4 - yoe \div 100)
      mp == (5 * doy + 2) \div 153
      m == IF mp < 10 THEN mp + 2 ELSE mp - 10
  IN [ y |-> yoe + era * 400 + (IF m <= 1 THEN 1 ELSE 0),
       m |-> m,
       d |-> doy - (153 * mp + 2) \div 5 + 1 ]

\* new Date(year, month, day): a month outside 0..11 and a day outside the
\* month carry over into the neighbouring months.
NewDate(y, m, d) == DateOfDay(DayNumber(y + m \div 12, m % 12, 1) + d - 1)

getTime(date) == DayNumber(date.y, date.m, date.d)

\* getDay(): 0 is Sunday.
getDay(date) == (getTime(date) + 4) % 7

\* date.setDate(date.getDate() + n)
AddDays(date, n) == DateOfDay(getTime(date) + n)

\* date.setMonth(date.getMonth() + n): the day of the month is kept and
\* carries over when the month reached is shorter.
AddMonths(date, n) == NewDate(date.y, date.m + n, date.d)

\* new Date(year, month + 1, 0).getDate()
DaysInMonth(y, m) == NewDate(y, m + 1, 0).d

\* The day new Date() gives and whether local time is behind UTC; SomeDay is
\* the day wherever nothing depends on it.
Clock(today, west) == [ today |-> today, west |-> west ]
SomeDay == [ y |-> 2024, m |-> 2, d |-> 15 ]

\* ---------------------------------------------------------------- newcomers
\* The users that sign up after the two clients were paired.
Newcomers == { 3, 4, 5 }

MemberRow(planner, user, slot) ==
  [ planner_id |-> planner, user_id |-> user, member_slot |-> slot ]

\* The planners, planner_members and invite_codes rows once the two clients
\* are paired on planner 1: its code (the planner's number) is used.
PairedTables ==
  [ planners |-> 1,
    planner_members |-> { MemberRow(1, 1, 1), MemberRow(1, 2, 2) },
    invite_codes |-> [ code \in { 1 } |-> "used" ] ]

\* A user who is doing nothing: tries counts the operations started so far.
Idle(tries, error) ==
  [ pc |-> "idle", planner |-> 0, slot |-> 0, error |-> error, tries |-> tries ]

\* ---------------------------------------------------------------- documents
\* A PlannerState value.  ko ("key order") records the order in which the
\* keys of an object are enumerated by JSON.stringify: "built" is the order
\* in which the client's code wrote them, "jsonb" the order in which a jsonb
\* column returns them (shorter keys first, then bytewise).
buildInitialPlannerState(currentUser, partner) ==
  [ currentUser |-> currentUser, partner |-> partner,
    activities |-> <<>>, events |-> <<>>,
    sharedGoals |-> <<>>, individualGoals |-> <<>>,
    budget |-> DefaultMonthlyLimit, logs |-> <<>>, ko |-> "built" ]

\* toPlannerUser: slot 2 is 'user-2', every other slot 'user-1'.
toPlannerUser(slot) == IF slot = 2 THEN 2 ELSE 1

NoDoc == [ ko |-> "none" ]

\* What the jsonb column gives back for a stored value: same members, every
\* object's keys in jsonb order.
JsonbObjects(seq) == [ i \in 1..Len(seq) |-> [ seq[i] EXCEPT !.ko = "jsonb" ] ]

\* The keys of a PlannerState.  Nothing in the program checks that a value
\* has them: a value of another shape is stored and passed on as it is.
PlannerStateKeys ==
  { "currentUser", "partner", "activities", "events", "sharedGoals",
    "individualGoals", "budget", "logs", "ko" }

IsPlannerState(d) == DOMAIN d = PlannerStateKeys

Jsonb(d) ==
  IF IsPlannerState(d)
  THEN [ d EXCEPT !.ko = "jsonb",
                  !.activities = JsonbObjects(d.activities),
                  !.events = JsonbObjects(d.events),
                  !.sharedGoals = JsonbObjects(d.sharedGoals),
                  !.individualGoals = JsonbObjects(d.individualGoals),
                  !.logs = JsonbObjects(d.logs) ]
  ELSE [ d EXCEPT !.ko = "jsonb" ]

\* JSON.stringify(state): the members in the object's own key order; nested
\* objects carry their own key order.
Signature(d) ==
  IF ~IsPlannerState(d)
  THEN << <<"partner", d.partner>>, <<"currentUser", d.currentUser>> >>
  ELSE IF d.ko = "jsonb"
  THEN << <<"logs", d.logs>>, <<"budget", d.budget>>, <<"events", d.events>>,
          <<"partner", d.partner>>, <<"activities", d.activities>>,
          <<"currentUser", d.currentUser>>, <<"sharedGoals", d.sharedGoals>>,
          <<"individualGoals", d.individualGoals>> >>
  ELSE << <<"currentUser", d.currentUser>>, <<"partner", d.partner>>,
          <<"activities", d.activities>>, <<"events", d.events>>,
          <<"sharedGoals", d.sharedGoals>>,
          <<"individualGoals", d.individualGoals>>,
          <<"budget", d.budget>>, <<"logs", d.logs>> >>

\* A jsonb value that is not a PlannerState: the collections are missing.
Malformed == [ currentUser |-> 1, partner |-> 2, ko |-> "jsonb" ]

\* lastSyncedStateSignature starts as ''.
EmptySignature == <<>>

\* --------------------------------------------------------- setState updates
SetUpdate(doc) == [ t |-> "set", key |-> "", value |-> doc ]
KeyUpdate(key, value) == [ t |-> "key", key |-> key, value |-> value ]
LogUpdate(entry) == [ t |-> "log", key |-> "logs", value |-> entry ]

\* addLog without the slice(0, 50).
ApplyUpdateNoCap(prev, u) ==
  CASE u.t = "set" -> u.value
    [] u.t = "key" -> [ prev EXCEPT ![u.key] = u.value ]
    [] u.t = "log" -> [ prev EXCEPT !.logs = <<u.value>> \o prev.logs ]

ApplyUpdate(prev, u) ==
  CASE u.t = "set" -> u.value
    [] u.t = "key" -> [ prev EXCEPT ![u.key] = u.value ]
    [] u.t = "log" ->
         [ prev EXCEPT !.logs =
             SubSeq(<<u.value>> \o prev.logs, 1, Min(LogCap, Len(prev.logs) + 1)) ]

RECURSIVE ApplyQueue(_, _)
ApplyQueue(prev, q) ==
  IF q = <<>> THEN prev ELSE ApplyQueue(ApplyUpdate(prev, Head(q)), Tail(q))

\* ------------------------------------------------------------------- state
VARIABLES
  store,            \* planner_state row: [doc, ver]; ver counts commits
  pushes,           \* per client: realtime payloads not yet delivered
  subscribed,       \* per client: activeRealtimeChannel is set
  session,          \* per client: signed in (auth.uid() is the member)
  profile,          \* per client: profile?.planner_id is set (latest setProfile)
  loading,          \* per client: plannerLoading (latest setPlannerLoading)
  ui,               \* per client: values committed by the last render
  state,            \* per client: PlannerState committed by the last render
  queue,            \* per client: setState updates awaiting the next render
  hasHydrated,      \* per client: hasHydratedFromSupabase.current
  isApplyingRemote, \* per client: isApplyingRemoteState.current
  resetPending,     \* per client: a setTimeout(0) flag reset is scheduled
  lastSynced,       \* per client: lastSyncedStateSignature.current
  timer,            \* per client: pending debounce timer (its closure)
  upserts,          \* save_planner_state calls in flight
  hyd,              \* per client: position of loadPlannerContext
  formError,        \* per client: formError is set
  nIntents,         \* number of intents so far; source of fresh ids
  nLogouts,
  nStoreErrors,
  adopted,          \* per client: store version of the last snapshot adopted
  intentDoc,        \* per client: document committed with the latest intent
  committed,        \* ids of the log entries of all documents ever stored
  quietFail,        \* per client: an upsert failed with nothing else pending
                    \* and the client has issued no intent since
  failed,           \* per client: documents whose upsert was reported failed
  planner_members,  \* clients that have a row in planner_members for the planner
  denied,           \* per client: an upsert was refused as not authorized
  socketOpen,       \* per client: the realtime socket is connected
  channels,         \* per client: open realtime channels and the activeRealtimeChannel ref
  localStorage,     \* per client: the entry couple_planner_data of the browser's local storage
  prevDoc,          \* per client: the document the last dispatched action was applied to
  clock,            \* the browser: the day new Date() gives, local time behind UTC or not
  viewDate,         \* per client: viewDate of the budget dashboard
  currentDate,      \* per client: currentDate of the calendar view
  tables,           \* the planners (their number), planner_members and invite_codes tables
  pairing           \* per newcomer: where createNewPlanner or linkWithInviteCode stands

vars == << store, pushes, subscribed, session, profile, loading, ui, state,
           queue, hasHydrated, isApplyingRemote, resetPending, lastSynced,
           timer, upserts, hyd, formError, nIntents, nLogouts, nStoreErrors,
           adopted, intentDoc, committed, failed, quietFail,
           planner_members,
           denied,
           socketOpen,
           channels,
           localStorage,
           prevDoc,
           clock,
           viewDate,
           currentDate,
           tables,
           pairing >>

NoTimer == [ set |-> FALSE ]

\* open: the channels of the client that the realtime client holds open;
\* ref: activeRealtimeChannel.current is null, an open channel or a channel
\* that was removed already; made: the channels created so far.
NoChannel == [ open |-> 0, ref |-> "null", made |-> 0 ]
OneChannel == [ open |-> 1, ref |-> "open", made |-> 1 ]
HydIdle == [ pc |-> "idle" ]

Init ==
  /\ store \in { [ doc |-> NoDoc, ver |-> 0, by |-> 0 ],
                 [ doc |-> Jsonb(buildInitialPlannerState(1, 2)), ver |-> 1, by |-> 0 ] }
  /\ pushes = [ c \in Clients |-> {} ]
  /\ subscribed = [ c \in Clients |-> FALSE ]
  /\ session = [ c \in Clients |-> TRUE ]
  /\ profile = [ c \in Clients |-> TRUE ]
  /\ loading = [ c \in Clients |-> FALSE ]
  /\ ui = [ c \in Clients |-> [ planner |-> FALSE, loading |-> FALSE ] ]
  /\ state = [ c \in Clients |-> buildInitialPlannerState(1, 2) ]
  /\ queue = [ c \in Clients |-> <<>> ]
  /\ hasHydrated = [ c \in Clients |-> FALSE ]
  /\ isApplyingRemote = [ c \in Clients |-> FALSE ]
  /\ resetPending = [ c \in Clients |-> FALSE ]
  /\ lastSynced = [ c \in Clients |-> EmptySignature ]
  /\ timer = [ c \in Clients |-> NoTimer ]
  /\ upserts = {}
  /\ hyd = [ c \in Clients |-> HydIdle ]
  /\ formError = [ c \in Clients |-> FALSE ]
  /\ nIntents = 0
  /\ nLogouts = 0
  /\ nStoreErrors = 0
  /\ adopted = [ c \in Clients |-> 0 ]
  /\ intentDoc = [ c \in Clients |-> NoDoc ]
  /\ committed = {}
  /\ quietFail = [ c \in Clients |-> FALSE ]
  /\ failed = [ c \in Clients |-> {} ]
  /\ pairing = [ u \in Newcomers |-> Idle(0, "none") ]
  /\ tables = PairedTables
  /\ currentDate = [ c \in Clients |-> SomeDay ]
  /\ viewDate = [ c \in Clients |-> SomeDay ]
  /\ clock = Clock(SomeDay, FALSE)
  /\ prevDoc = [ c \in Clients |-> NoDoc ]
  /\ localStorage = [ c \in Clients |-> NoDoc ]
  /\ channels = [ c \in Clients |-> NoChannel ]
  /\ socketOpen = [ c \in Clients |-> TRUE ]
  /\ denied = [ c \in Clients |-> FALSE ]
  /\ planner_members = Clients

\* --------------------------------------------------------------- save effect
\* The save effect: the value of the debounce timer after the effect ran for
\* a render that committed newState with planner id `planner`.
SaveEffect(c, newState, planner) ==
  IF ~hasHydrated[c] \/ isApplyingRemote[c] \/ ~planner
  THEN timer[c]
  ELSE IF Signature(newState) = lastSynced[c]
       THEN timer[c]
       ELSE [ set |-> TRUE, doc |-> newState, sig |-> Signature(newState) ]

\* ----------------------------------------------------------------- intents
\* The planner view is rendered: profile.planner_id set, no loading screen,
\* and the views could read the collections of the document (rendering a
\* document without them throws and leaves nothing to click on).
PlannerView(c) == ui[c].planner /\ ~ui[c].loading /\ IsPlannerState(state[c])

FreshId == nIntents + 1

\* addLog: the entry is prepended by a functional update.
NewLog(c, message) ==
  [ id |-> FreshId, message |-> message,
    userName |-> state[c].currentUser, ko |-> "built" ]

\* updateState(key, value) followed by addLog(message), called from a click
\* handler; value was computed by the caller from the state of the last
\* render.  React renders the two updates synchronously when the handler
\* returns: the render applies them to the committed state, skipping the
\* snapshots that still await their own (lower priority) render, commits the
\* result and runs the save effect.  The skipped snapshots and, behind them,
\* these two updates stay queued for that later render.
Dispatch(c, key, value, message) ==
  LET updates == << KeyUpdate(key, value), LogUpdate(NewLog(c, message)) >>
      newState == ApplyQueue(state[c], updates)
  IN
  /\ PlannerView(c)
  /\ state' = [ state EXCEPT ![c] = newState ]
  /\ queue' = [ queue EXCEPT ![c] = IF @ = <<>> THEN <<>> ELSE @ \o updates ]
  /\ timer' = [ timer EXCEPT ![c] = SaveEffect(c, newState, ui[c].planner) ]
  /\ intentDoc' = [ intentDoc EXCEPT ![c] = newState ]
  /\ nIntents' = nIntents + 1
  /\ prevDoc' = [ prevDoc EXCEPT ![c] = state[c] ]
  /\ quietFail' = [ quietFail EXCEPT ![c] = FALSE ]
  /\ UNCHANGED << store, pushes, subscribed, session, profile, loading, ui,
                  hasHydrated, isApplyingRemote, resetPending, lastSynced,
                  upserts, hyd, formError, nLogouts, nStoreErrors, adopted,
                  committed, failed,
                  planner_members,
                  denied,
                  socketOpen,
                  channels,
                  localStorage,
                  clock,
                  viewDate,
                  currentDate,
                  tables,
                  pairing >>

NewItem == [ id |-> FreshId, ko |-> "built" ]

\* A filter that keeps nothing.
WithoutAll(seq, id) == SubSeq(seq, 1, 0)

Without(seq, id) == SelectSeq(seq, LAMBDA x : x.id # id)

Ids(seq) == { seq[i].id : i \in 1..Len(seq) }

addActivity(c) ==
  Dispatch(c, "activities", Append(state[c].activities, NewItem), "Created activity")

deleteActivity(c, id) ==
  /\ id \in Ids(state[c].activities)
  /\ Dispatch(c, "activities", Without(state[c].activities, id), "Deleted an activity")

addEvent(c) ==
  Dispatch(c, "events", Append(state[c].events, NewItem), "Added calendar event")

deleteEvent(c, id) ==
  /\ id \in Ids(state[c].events)
  /\ Dispatch(c, "events", Without(state[c].events, id), "Removed an event from calendar")

addSharedGoal(c) ==
  Dispatch(c, "sharedGoals", Append(state[c].sharedGoals, NewItem), "Created shared goal")

addIndividualGoal(c) ==
  Dispatch(c, "individualGoals", Append(state[c].individualGoals, NewItem),
           "Created personal goal")

\* The goal collections and the tab of the goals view that shows each.
GoalKeys == { "sharedGoals", "individualGoals" }

\* confirmDeleteGoal of the goal detail modal: onDelete(goal.id); onClose().
\* onDelete is actions.deleteSharedGoal or actions.deleteIndividualGoal, and
\* the actions object has neither: the call throws a TypeError, no update is
\* dispatched and onClose is not reached.  Only the click is counted.
confirmDeleteGoal(c, key, id) ==
  /\ PlannerView(c)
  /\ id \in Ids(state[c][key])
  /\ nIntents' = nIntents + 1
  /\ UNCHANGED << store, pushes, subscribed, session, profile, loading, ui,
                  state, queue, hasHydrated, isApplyingRemote, resetPending,
                  lastSynced, timer, upserts, hyd, formError, nLogouts,
                  nStoreErrors, adopted, intentDoc, committed, failed,
                  quietFail, planner_members, denied, socketOpen, channels,
                  localStorage, prevDoc,
                  clock,
                  viewDate,
                  currentDate,
                  tables,
                  pairing >>

\* ---------------------------------------------------------- budget dashboard
\* A calendar event: date is the local midnight of its day; isKey tells that
\* the date is held as a 'YYYY-MM-DD' key (the occurrences of a recurring
\* event) and not as the timestamp the event modal stores; hasActual tells
\* that actualCost is defined.
CalendarEvent(id, date, recurrence, estimatedCost, hasActual, actualCost) ==
  [ id |-> id, ko |-> "jsonb", date |-> date, isKey |-> FALSE,
    recurrence |-> recurrence, estimatedCost |-> estimatedCost,
    hasActual |-> hasActual, actualCost |-> actualCost ]

\* { ...e, id: `${e.id}-${toDateKey(cursor)}`, date: toDateKey(cursor) }
Occurrence(e, date) ==
  [ e EXCEPT !.id = << e.id, date >>, !.date = date, !.isKey = TRUE ]

\* The second loop of the Weekly branch: push, then cursor + 7.
RECURSIVE WeeklyFrom(_, _, _)
WeeklyFrom(e, cursor, endOfMonth) ==
  IF getTime(cursor) <= getTime(endOfMonth)
  THEN << Occurrence(e, cursor) >> \o WeeklyFrom(e, AddDays(cursor, 7), endOfMonth)
  ELSE << >>

\* The first loop of the Weekly branch: cursor + 1 until the weekday is met.
RECURSIVE AlignWeekday(_, _)
AlignWeekday(cursor, weekday) ==
  IF getDay(cursor) # weekday THEN AlignWeekday(AddDays(cursor, 1), weekday)
  ELSE cursor

\* The Weekly branch without its first loop.
WeeklyStartUnaligned(baseDate, startOfMonth) ==
  IF getTime(baseDate) >= getTime(startOfMonth) THEN baseDate ELSE startOfMonth

\* The cursor the Weekly branch starts to push from: the later of the date
\* of the template and the first of the month, moved on to the weekday.
WeeklyStart(baseDate, startOfMonth) ==
  AlignWeekday(IF getTime(baseDate) >= getTime(startOfMonth)
               THEN baseDate ELSE startOfMonth,
               getDay(baseDate))

\* A candidate that is pulled back to the last day of the month.
CandidateClamped(y, m, d) == NewDate(y, m, Min(d, DaysInMonth(y, m)))

\* new Date(currentYear, currentMonth, baseDate.getDate())
Candidate(y, m, d) == NewDate(y, m, d)

\* What the flatMap of monthlyEvents gives for one event.
ProjectEvent(e, currentYear, currentMonth) ==
  LET baseDate == e.date
      startOfMonth == NewDate(currentYear, currentMonth, 1)
      endOfMonth == NewDate(currentYear, currentMonth + 1, 0)
      candidate == Candidate(currentYear, currentMonth, baseDate.d)
  IN CASE e.recurrence = "None" ->
            IF baseDate.m = currentMonth /\ baseDate.y = currentYear
            THEN << e >> ELSE << >>
       [] e.recurrence = "Weekly" ->
            WeeklyFrom(e, WeeklyStart(baseDate, startOfMonth), endOfMonth)
       [] e.recurrence = "Monthly" ->
            IF (currentYear - baseDate.y) * 12 + (currentMonth - baseDate.m) < 0
            THEN << >>
            ELSE IF candidate.m # currentMonth THEN << >>
            ELSE << Occurrence(e, candidate) >>
       [] e.recurrence = "Yearly" ->
            IF currentYear < baseDate.y THEN << >>
            ELSE IF currentMonth # baseDate.m THEN << >>
            ELSE IF candidate.m # currentMonth THEN << >>
            ELSE << Occurrence(e, candidate) >>
       [] OTHER -> << >>

RECURSIVE FlatMap(_, _, _)
FlatMap(events, y, m) ==
  IF events = << >> THEN << >>
  ELSE ProjectEvent(Head(events), y, m) \o FlatMap(Tail(events), y, m)

\* monthlyEvents of the budget dashboard of client c.
monthlyEvents(c) == FlatMap(state[c].events, viewDate[c].y, viewDate[c].m)

\* e.actualCost || e.estimatedCost || 0: an actual cost that is undefined or
\* 0 is falsy.
Cost(e) ==
  IF e.hasActual /\ e.actualCost # 0 THEN e.actualCost
  ELSE IF e.estimatedCost # 0 THEN e.estimatedCost
  ELSE 0

RECURSIVE SumCost(_)
SumCost(events) ==
  IF events = << >> THEN 0 ELSE Cost(Head(events)) + SumCost(Tail(events))

totalActual(c) == SumCost(monthlyEvents(c))

\* new Date(dateStr) in getWeekOfMonth: a 'YYYY-MM-DD' key is read as
\* midnight UTC, which is the evening before where local time is behind UTC;
\* a timestamp is read as the instant it is.
ParsedLocalDay(e) ==
  IF e.isKey /\ clock.west THEN AddDays(e.date, 0 - 1) ELSE e.date

\* Math.ceil((day + firstDay) / 7)
getWeekOfMonth(e) ==
  LET date == ParsedLocalDay(e)
      firstDay == getDay(NewDate(date.y, date.m, 1))
  IN (date.d + firstDay + 6) \div 7

\* The five entries of weeklyData.
WeekCount == 5

\* weeklyData[w - 1].spent after the forEach: an event whose index has no
\* entry in weeklyData is skipped.
weeklyData(c) ==
  [ w \in 1..WeekCount |->
      SumCost(SelectSeq(monthlyEvents(c), LAMBDA e : getWeekOfMonth(e) = w)) ]

\* The month buttons of the budget dashboard: setMonth on viewDate, or today.
BudgetMonth(c, n) ==
  /\ PlannerView(c)
  /\ viewDate' = [ viewDate EXCEPT ![c] = AddMonths(@, n) ]
  /\ UNCHANGED << store, pushes, subscribed, session, profile, loading, ui,
                  state, queue, hasHydrated, isApplyingRemote, resetPending,
                  lastSynced, timer, upserts, hyd, formError, nIntents,
                  nLogouts, nStoreErrors, adopted, intentDoc, committed,
                  failed, quietFail, planner_members, denied, socketOpen,
                  channels, localStorage, prevDoc, clock, currentDate,
                  tables,
                  pairing >>

BudgetCurrent(c) ==
  /\ PlannerView(c)
  /\ viewDate[c] # clock.today
  /\ viewDate' = [ viewDate EXCEPT ![c] = clock.today ]
  /\ UNCHANGED << store, pushes, subscribed, session, profile, loading, ui,
                  state, queue, hasHydrated, isApplyingRemote, resetPending,
                  lastSynced, timer, upserts, hyd, formError, nIntents,
                  nLogouts, nStoreErrors, adopted, intentDoc, committed,
                  failed, quietFail, planner_members, denied, socketOpen,
                  channels, localStorage, prevDoc, clock, currentDate,
                  tables,
                  pairing >>

\* ----------------------------------------------------------- insights panel
\* monthlyEvents of the insights panel: the events whose own date is in the
\* month of today; no event is expanded.
insightsEvents(c) ==
  SelectSeq(state[c].events,
            LAMBDA e : e.date.m = clock.today.m /\ e.date.y = clock.today.y)

insightsTotalActual(c) == SumCost(insightsEvents(c))

\* ------------------------------------------------------------ calendar view
\* getExpandedEventsForDay for one event (events derived from goals and
\* birthdays are not modelled).
ExpandEvent(event, dayDate) ==
  LET startDate == event.date
      occurrence == Occurrence(event, dayDate)
  IN CASE event.recurrence = "Weekly" ->
            IF getTime(dayDate) < getTime(startDate) THEN << >>
            ELSE IF getDay(dayDate) # getDay(startDate) THEN << >>
            ELSE << occurrence >>
       [] event.recurrence = "Monthly" ->
            IF getTime(dayDate) < getTime(startDate) THEN << >>
            ELSE IF dayDate.d # startDate.d THEN << >>
            ELSE << occurrence >>
       [] event.recurrence = "Yearly" ->
            IF getTime(dayDate) < getTime(startDate) THEN << >>
            ELSE IF dayDate.d # startDate.d THEN << >>
            ELSE IF dayDate.m # startDate.m THEN << >>
            ELSE << occurrence >>
       [] OTHER -> IF event.date = dayDate THEN << event >> ELSE << >>

RECURSIVE getExpandedEventsForDay(_, _)
getExpandedEventsForDay(events, dayDate) ==
  IF events = << >> THEN << >>
  ELSE ExpandEvent(Head(events), dayDate)
         \o getExpandedEventsForDay(Tail(events), dayDate)

\* getDaysInMonth: the days of the month of currentDate, in order.
getDaysInMonth(date) ==
  [ i \in 1..DaysInMonth(date.y, date.m) |-> NewDate(date.y, date.m, i) ]

\* The events the month grid of client c shows, day by day.
RECURSIVE ExpandDays(_, _)
ExpandDays(events, days) ==
  IF days = << >> THEN << >>
  ELSE getExpandedEventsForDay(events, Head(days)) \o ExpandDays(events, Tail(days))

calendarEvents(c) == ExpandDays(state[c].events, getDaysInMonth(currentDate[c]))

CalendarMonth(c, n) ==
  /\ PlannerView(c)
  /\ currentDate' = [ currentDate EXCEPT ![c] = AddMonths(@, n) ]
  /\ UNCHANGED << store, pushes, subscribed, session, profile, loading, ui,
                  state, queue, hasHydrated, isApplyingRemote, resetPending,
                  lastSynced, timer, upserts, hyd, formError, nIntents,
                  nLogouts, nStoreErrors, adopted, intentDoc, committed,
                  failed, quietFail, planner_members, denied, socketOpen,
                  channels, localStorage, prevDoc, clock, viewDate,
                  tables,
                  pairing >>

CalendarCurrent(c) ==
  /\ PlannerView(c)
  /\ currentDate[c] # clock.today
  /\ currentDate' = [ currentDate EXCEPT ![c] = clock.today ]
  /\ UNCHANGED << store, pushes, subscribed, session, profile, loading, ui,
                  state, queue, hasHydrated, isApplyingRemote, resetPending,
                  lastSynced, timer, upserts, hyd, formError, nIntents,
                  nLogouts, nStoreErrors, adopted, intentDoc, committed,
                  failed, quietFail, planner_members, denied, socketOpen,
                  channels, localStorage, prevDoc, clock, viewDate,
                  tables,
                  pairing >>

\* ------------------------------------------------------------------- goals
\* A goal of the goal detail modal.  hasTarget: financialTarget is defined;
\* progressPercentage is kept in hundredths of a percent, the two decimals of
\* toFixed(2); contributions are [id, amount], tasks are [id, completed].
Scale == 100

Goal(id, hasTarget, target, contributions, tasks, amount, progress, status) ==
  [ id |-> id, ko |-> "jsonb", hasTarget |-> hasTarget,
    financialTarget |-> target, contributions |-> contributions,
    tasks |-> tasks, currentAmount |-> amount,
    progressPercentage |-> progress, status |-> status ]

RECURSIVE SumAmounts(_)
SumAmounts(contributions) ==
  IF contributions = <<>> THEN 0
  ELSE Head(contributions).amount + SumAmounts(Tail(contributions))

\* Rounding the quotient num / den (den > 0) to the nearest integer, a tie
\* away from zero: Number(x.toFixed(2)) on the hundredths, Math.round on a
\* quotient that is not negative.
RoundDiv(num, den) ==
  IF num >= 0 THEN (2 * num + den) \div (2 * den)
  ELSE 0 - ((2 * (0 - num) + den) \div (2 * den))

Completed(tasks) == Len(SelectSeq(tasks, LAMBDA t : t.completed))

StatusOf(progress) ==
  IF progress = 100 * Scale THEN "Completed"
  ELSE IF progress > 0 THEN "In Progress" ELSE "Not Started"

\* if (updatedGoal.financialTarget): a target that is undefined or 0 is falsy.
Truthy(goal) == goal.hasTarget /\ goal.financialTarget # 0

calculateProgress(updatedGoal) ==
  LET total == SumAmounts(updatedGoal.contributions)
      target == updatedGoal.financialTarget
      progress ==
        IF Truthy(updatedGoal)
        THEN IF target > 0
             THEN Min(100 * Scale, RoundDiv(total * 100 * Scale, target))
             ELSE 0
        ELSE IF Len(updatedGoal.tasks) > 0
        THEN Scale * RoundDiv(Completed(updatedGoal.tasks) * 100,
                              Len(updatedGoal.tasks))
        ELSE 0
  IN [ updatedGoal EXCEPT
         !.currentAmount = IF Truthy(updatedGoal) THEN total ELSE @,
         !.progressPercentage = progress,
         !.status = StatusOf(progress) ]

GoalOf(c, id) ==
  LET goals == state[c].sharedGoals
  IN goals[CHOOSE i \in 1..Len(goals) : goals[i].id = id]

updateSharedGoal(c, goal) ==
  Dispatch(c, "sharedGoals",
           [ i \in 1..Len(state[c].sharedGoals) |->
               IF state[c].sharedGoals[i].id = goal.id
               THEN goal ELSE state[c].sharedGoals[i] ],
           "Updated shared goal")

\* handleAction: the input field holds a number (the field is of type number
\* with no minimum).  A goal with a truthy target gets a contribution of that
\* amount, any other goal a task with that text.
handleAction(c, id, inputValue) ==
  /\ id \in Ids(state[c].sharedGoals)
  /\ LET goal == GoalOf(c, id)
     IN updateSharedGoal(c, calculateProgress(
          IF Truthy(goal)
          THEN [ goal EXCEPT !.contributions =
                   Append(@, [ id |-> FreshId, amount |-> inputValue ]) ]
          ELSE [ goal EXCEPT !.tasks =
                   Append(@, [ id |-> FreshId, completed |-> FALSE ]) ]))

toggleTask(c, id, taskId) ==
  /\ id \in Ids(state[c].sharedGoals)
  /\ taskId \in Ids(GoalOf(c, id).tasks)
  /\ LET goal == GoalOf(c, id)
     IN updateSharedGoal(c, calculateProgress(
          [ goal EXCEPT !.tasks =
              [ i \in 1..Len(goal.tasks) |->
                  IF goal.tasks[i].id = taskId
                  THEN [ goal.tasks[i] EXCEPT !.completed = ~@ ]
                  ELSE goal.tasks[i] ] ]))

deleteTask(c, id, taskId) ==
  /\ id \in Ids(state[c].sharedGoals)
  /\ taskId \in Ids(GoalOf(c, id).tasks)
  /\ LET goal == GoalOf(c, id)
     IN updateSharedGoal(c, calculateProgress(
          [ goal EXCEPT !.tasks = Without(goal.tasks, taskId) ]))

\* saveGoalDetails: the target is replaced only when the goal has one and the
\* parsed input is positive; title and dates are not modelled.
saveGoalDetails(c, id, parsedTarget) ==
  /\ id \in Ids(state[c].sharedGoals)
  /\ LET goal == GoalOf(c, id)
     IN updateSharedGoal(c, calculateProgress(
          [ goal EXCEPT !.financialTarget =
              IF goal.hasTarget /\ parsedTarget > 0 THEN parsedTarget ELSE @ ]))

updateBudgetLimit(c, limit) ==
  Dispatch(c, "budget", limit, "Updated monthly budget limit")

\* ------------------------------------------------------------------ render
\* Some queued update comes from a dispatched action (not from a snapshot).
HasIntent(q) == \E i \in 1..Len(q) : q[i].t # "set"

Dirty(c) ==
  \/ queue[c] # <<>>
  \/ ui[c] # [ planner |-> profile[c], loading |-> loading[c] ]

\* The realtime effect without any removeChannel call: a channel, once
\* created, stays open.
RealtimeEffectLeaky(c) ==
  IF profile[c]
  THEN [ open |-> channels[c].open + 1, ref |-> "open",
         made |-> channels[c].made + 1 ]
  ELSE [ channels[c] EXCEPT !.ref = "null" ]

\* The realtime effect when profile.planner_id changed: the cleanup of the
\* previous run removes the channel that run created, then the body removes
\* the channel the ref holds, if any, and with a planner id creates and
\* subscribes a new channel and stores it in the ref.
RealtimeEffect(c) ==
  LET cleaned == IF ui[c].planner /\ channels[c].ref = "open"
                 THEN [ channels[c] EXCEPT !.open = @ - 1, !.ref = "removed" ]
                 ELSE channels[c]
      removed == [ cleaned EXCEPT
                     !.open = IF cleaned.ref = "open" THEN @ - 1 ELSE @,
                     !.ref = "null" ]
  IN IF profile[c]
     THEN [ open |-> removed.open + 1, ref |-> "open",
            made |-> removed.made + 1 ]
     ELSE removed

\* The render React schedules for updates made outside click handlers (push
\* handler, continuations of loadPlannerContext and of the auth callback): the
\* queued updates are applied in order and committed, then the effects whose
\* dependencies changed run in declaration order (hydration, realtime
\* subscription, save).
Render(c) ==
  LET newState == ApplyQueue(state[c], queue[c])
      plannerChanged == profile[c] # ui[c].planner
      stateChanged == queue[c] # <<>>
      startLoad == plannerChanged /\ profile[c] /\ session[c]
  IN
  /\ Dirty(c)
  /\ state' = [ state EXCEPT ![c] = newState ]
  /\ queue' = [ queue EXCEPT ![c] = <<>> ]
  /\ ui' = [ ui EXCEPT ![c] = [ planner |-> profile[c], loading |-> loading[c] ] ]
  /\ IF startLoad
     THEN /\ loading' = [ loading EXCEPT ![c] = TRUE ]
          /\ formError' = [ formError EXCEPT ![c] = FALSE ]
          /\ hyd' = [ hyd EXCEPT ![c] = [ pc |-> "fetching" ] ]
     ELSE UNCHANGED << loading, formError, hyd >>
  /\ IF plannerChanged
     THEN /\ channels' = [ channels EXCEPT ![c] = RealtimeEffect(c) ]
          /\ subscribed' = [ subscribed EXCEPT ![c] = RealtimeEffect(c).open > 0 ]
          /\ pushes' = [ pushes EXCEPT ![c] =
                           IF RealtimeEffect(c).open > 0 THEN @ ELSE {} ]
     ELSE UNCHANGED << subscribed, pushes, channels >>
  /\ timer' = [ timer EXCEPT ![c] =
                  IF stateChanged \/ plannerChanged
                  THEN SaveEffect(c, newState, profile[c])
                  ELSE @ ]
  /\ intentDoc' = [ intentDoc EXCEPT ![c] =
                      IF HasIntent(queue[c]) THEN newState ELSE @ ]
  /\ UNCHANGED << store, session, profile, hasHydrated, isApplyingRemote,
                  resetPending, lastSynced, upserts, nIntents, nLogouts,
                  nStoreErrors, adopted, committed, failed,
                  quietFail,
                  planner_members,
                  denied,
                  socketOpen,
                  localStorage,
                  prevDoc,
                  clock,
                  viewDate,
                  currentDate,
                  tables,
                  pairing >>

\* window.setTimeout(() => { isApplyingRemoteState.current = false }, 0)
FlagReset(c) ==
  /\ resetPending[c]
  /\ resetPending' = [ resetPending EXCEPT ![c] = FALSE ]
  /\ isApplyingRemote' = [ isApplyingRemote EXCEPT ![c] = FALSE ]
  /\ UNCHANGED << store, pushes, subscribed, session, profile, loading, ui,
                  state, queue, hasHydrated, lastSynced, timer, upserts, hyd,
                  formError, nIntents, nLogouts, nStoreErrors, adopted, intentDoc, committed, failed,
                  quietFail,
                  planner_members,
                  denied,
                  socketOpen,
                  channels,
                  localStorage,
                  prevDoc,
                  clock,
                  viewDate,
                  currentDate,
                  tables,
                  pairing >>

\* ------------------------------------------------------------ debounced save
\* The debounce timer fires: its callback calls upsertPlannerState with the
\* state and signature captured by the render that started it.
TimerFire(c) ==
  /\ timer[c].set
  /\ upserts' = upserts \cup
       { [ client |-> c, kind |-> "save", doc |-> timer[c].doc,
           sig |-> timer[c].sig, phase |-> "sent" ] }
  /\ timer' = [ timer EXCEPT ![c] = NoTimer ]
  /\ UNCHANGED << store, pushes, subscribed, session, profile, loading, ui,
                  state, queue, hasHydrated, isApplyingRemote, resetPending,
                  lastSynced, hyd, formError, nIntents, nLogouts,
                  nStoreErrors, adopted, intentDoc, committed, failed,
                  quietFail,
                  planner_members,
                  denied,
                  socketOpen,
                  channels,
                  localStorage,
                  prevDoc,
                  clock,
                  viewDate,
                  currentDate,
                  tables,
                  pairing >>

\* The change feed reaches a client that has a channel on the planner's row,
\* may select the row (row level security) and whose socket is connected.
Receives(c) == subscribed[c] /\ c \in planner_members /\ socketOpen[c]

Answered(u, phase) == (upserts \ {u}) \cup { [ u EXCEPT !.phase = phase ] }

\* save_planner_state runs in the database for a signed-in member: the row
\* is replaced and the change is published to every subscribed client.
save_planner_state(u) ==
  LET row == [ doc |-> Jsonb(u.doc), ver |-> store.ver + 1, by |-> u.client ]
  IN
  /\ u \in upserts
  /\ u.phase = "sent"
  /\ session[u.client]
  /\ u.client \in planner_members
  /\ store.ver < MaxVersion
  /\ store' = row
  /\ pushes' = [ c \in Clients |->
                   IF Receives(c) THEN pushes[c] \cup {row} ELSE pushes[c] ]
  /\ upserts' = Answered(u, "ok")
  /\ committed' = committed \cup Ids(u.doc.logs)
  /\ UNCHANGED << subscribed, session, profile, loading, ui, state, queue,
                  hasHydrated, isApplyingRemote, resetPending, lastSynced,
                  timer, hyd, formError, nIntents, nLogouts, nStoreErrors,
                  adopted, intentDoc, failed,
                  quietFail,
                  planner_members,
                  denied,
                  socketOpen,
                  channels,
                  localStorage,
                  prevDoc,
                  clock,
                  viewDate,
                  currentDate,
                  tables,
                  pairing >>

\* The rpc returns an error: 'Not authenticated' when the caller signed out,
\* 'Not authorized for this planner' when the caller has no planner_members
\* row, or a transient store/network error.
SaveRejected(u) ==
  /\ u \in upserts
  /\ u.phase = "sent"
  /\ \/ /\ ~session[u.client]
        /\ upserts' = Answered(u, "err")
        /\ UNCHANGED nStoreErrors
     \/ /\ session[u.client] /\ u.client \notin planner_members
        /\ upserts' = Answered(u, "denied")
        /\ UNCHANGED nStoreErrors
     \/ /\ nStoreErrors < MaxStoreErrors
        /\ nStoreErrors' = nStoreErrors + 1
        /\ upserts' = Answered(u, "err")
  /\ UNCHANGED << store, pushes, subscribed, session, profile, loading, ui,
                  state, queue, hasHydrated, isApplyingRemote, resetPending,
                  lastSynced, timer, hyd, formError, nIntents, nLogouts,
                  adopted, intentDoc, committed, failed,
                  quietFail,
                  planner_members,
                  denied,
                  socketOpen,
                  channels,
                  localStorage,
                  prevDoc,
                  clock,
                  viewDate,
                  currentDate,
                  tables,
                  pairing >>

\* Continuation of the timer callback after `await upsertPlannerState`.
SaveDone(u) ==
  /\ u \in upserts
  /\ u.kind = "save"
  /\ u.phase \in { "ok", "err", "denied" }
  /\ upserts' = upserts \ {u}
  /\ IF u.phase = "ok"
     THEN /\ lastSynced' = [ lastSynced EXCEPT ![u.client] = u.sig ]
          /\ UNCHANGED << formError, failed, quietFail, denied >>
     ELSE /\ formError' = [ formError EXCEPT ![u.client] = TRUE ]
          /\ failed' = [ failed EXCEPT ![u.client] = @ \cup { u.doc } ]
          /\ quietFail' = [ quietFail EXCEPT ![u.client] =
                              /\ ~timer[u.client].set
                              /\ ~HasIntent(queue[u.client])
                              /\ \A v \in upserts \ {u} : v.client # u.client ]
          /\ denied' = [ denied EXCEPT ![u.client] = @ \/ u.phase = "denied" ]
          /\ UNCHANGED lastSynced
  /\ UNCHANGED << store, pushes, subscribed, session, profile, loading, ui,
                  state, queue, hasHydrated, isApplyingRemote, resetPending,
                  timer, hyd, nIntents, nLogouts, nStoreErrors, adopted, intentDoc,
                  committed,
                  planner_members,
                  socketOpen,
                  channels,
                  localStorage,
                  prevDoc,
                  clock,
                  viewDate,
                  currentDate,
                  tables,
                  pairing >>

\* save_planner_state called with a p_data that is not a PlannerState (by
\* anything that holds a member's credentials): the function checks the
\* caller only, the jsonb value is stored and published as it is.
ExternalSave(doc) ==
  LET row == [ doc |-> doc, ver |-> store.ver + 1, by |-> 0 ]
  IN
  /\ store.ver < MaxVersion
  /\ store' = row
  /\ pushes' = [ c \in Clients |->
                   IF Receives(c) THEN pushes[c] \cup {row} ELSE pushes[c] ]
  /\ UNCHANGED << subscribed, session, profile, loading, ui, state, queue,
                  hasHydrated, isApplyingRemote, resetPending, lastSynced,
                  timer, upserts, hyd, formError, nIntents, nLogouts,
                  nStoreErrors, adopted, intentDoc, committed, failed,
                  quietFail,
                  planner_members,
                  denied,
                  socketOpen,
                  channels,
                  localStorage,
                  prevDoc,
                  clock,
                  viewDate,
                  currentDate,
                  tables,
                  pairing >>

\* ------------------------------------------------------------ realtime push
\* The postgres_changes handler.
DeliverPush(c, m) ==
  /\ m \in pushes[c]
  /\ pushes' = [ pushes EXCEPT ![c] = @ \ {m} ]
  /\ IF Signature(m.doc) = lastSynced[c]
     THEN UNCHANGED << lastSynced, isApplyingRemote, queue, resetPending, adopted >>
     ELSE /\ lastSynced' = [ lastSynced EXCEPT ![c] = Signature(m.doc) ]
          /\ isApplyingRemote' = [ isApplyingRemote EXCEPT ![c] = TRUE ]
          /\ queue' = [ queue EXCEPT ![c] = Append(@, SetUpdate(m.doc)) ]
          /\ resetPending' = [ resetPending EXCEPT ![c] = TRUE ]
          /\ adopted' = [ adopted EXCEPT ![c] = m.ver ]
  /\ UNCHANGED << store, subscribed, session, profile, loading, ui, state,
                  hasHydrated, timer, upserts, hyd, formError, nIntents,
                  nLogouts, nStoreErrors, intentDoc, committed, failed,
                  quietFail,
                  planner_members,
                  denied,
                  socketOpen,
                  channels,
                  localStorage,
                  prevDoc,
                  clock,
                  viewDate,
                  currentDate,
                  tables,
                  pairing >>

\* ---------------------------------------------------------------- hydration
\* loadPlannerContext: the select on planner_state is answered.  Row level
\* security hides the row from a caller that is not signed in or has no
\* planner_members row.
FetchRow(c) ==
  /\ hyd[c].pc = "fetching"
  /\ hyd' = [ hyd EXCEPT ![c] =
                [ pc |-> "fetched",
                  row |-> IF session[c] /\ c \in planner_members
                         THEN store.doc ELSE NoDoc,
                  ver |-> store.ver ] ]
  /\ UNCHANGED << store, pushes, subscribed, session, profile, loading, ui,
                  state, queue, hasHydrated, isApplyingRemote, resetPending,
                  lastSynced, timer, upserts, formError, nIntents, nLogouts,
                  nStoreErrors, adopted, intentDoc, committed, failed,
                  quietFail,
                  planner_members,
                  denied,
                  socketOpen,
                  channels,
                  localStorage,
                  prevDoc,
                  clock,
                  viewDate,
                  currentDate,
                  tables,
                  pairing >>

\* The select fails: plannerStateError is only logged, plannerStateRow is null.
FetchError(c) ==
  /\ hyd[c].pc = "fetching"
  /\ nStoreErrors < MaxStoreErrors
  /\ nStoreErrors' = nStoreErrors + 1
  /\ hyd' = [ hyd EXCEPT ![c] = [ pc |-> "fetched", row |-> NoDoc, ver |-> 0 ] ]
  /\ UNCHANGED << store, pushes, subscribed, session, profile, loading, ui,
                  state, queue, hasHydrated, isApplyingRemote, resetPending,
                  lastSynced, timer, upserts, formError, nIntents, nLogouts,
                  adopted, intentDoc, committed, failed,
                  quietFail,
                  planner_members,
                  denied,
                  socketOpen,
                  channels,
                  localStorage,
                  prevDoc,
                  clock,
                  viewDate,
                  currentDate,
                  tables,
                  pairing >>

\* The tail of loadPlannerContext, from `const signature = ...` on.
FinishLoad(c, nextState) ==
  /\ lastSynced' = [ lastSynced EXCEPT ![c] = Signature(nextState) ]
  /\ isApplyingRemote' = [ isApplyingRemote EXCEPT ![c] = TRUE ]
  /\ queue' = [ queue EXCEPT ![c] = Append(@, SetUpdate(nextState)) ]
  /\ resetPending' = [ resetPending EXCEPT ![c] = TRUE ]
  /\ hasHydrated' = [ hasHydrated EXCEPT ![c] = TRUE ]
  /\ loading' = [ loading EXCEPT ![c] = FALSE ]
  /\ hyd' = [ hyd EXCEPT ![c] = HydIdle ]
  /\ denied' = [ denied EXCEPT ![c] = FALSE ]

\* plannerStateRow.data is present: adopt it with this client's users.
HydrateFromRow(c) ==
  /\ hyd[c].pc = "fetched"
  /\ hyd[c].row # NoDoc
  /\ FinishLoad(c, [ hyd[c].row EXCEPT !.currentUser = toPlannerUser(c),
                                       !.partner = toPlannerUser(Other(c)) ])
  /\ adopted' = [ adopted EXCEPT ![c] = hyd[c].ver ]
  /\ UNCHANGED << store, pushes, subscribed, session, profile, ui, state,
                  timer, upserts, formError, nIntents, nLogouts,
                  nStoreErrors, intentDoc, committed, failed,
                  quietFail,
                  planner_members,
                  socketOpen,
                  channels,
                  localStorage,
                  prevDoc,
                  clock,
                  viewDate,
                  currentDate,
                  tables,
                  pairing >>

\* No row data: build the initial state and upsert it.
HydrateSeed(c) ==
  LET nextState == buildInitialPlannerState(toPlannerUser(c), toPlannerUser(Other(c)))
  IN
  /\ hyd[c].pc = "fetched"
  /\ hyd[c].row = NoDoc
  /\ upserts' = upserts \cup
       { [ client |-> c, kind |-> "seed", doc |-> nextState,
           sig |-> Signature(nextState), phase |-> "sent" ] }
  /\ hyd' = [ hyd EXCEPT ![c] = [ pc |-> "seeding" ] ]
  /\ UNCHANGED << store, pushes, subscribed, session, profile, loading, ui,
                  state, queue, hasHydrated, isApplyingRemote, resetPending,
                  lastSynced, timer, formError, nIntents, nLogouts,
                  nStoreErrors, adopted, intentDoc, committed, failed,
                  quietFail,
                  planner_members,
                  denied,
                  socketOpen,
                  channels,
                  localStorage,
                  prevDoc,
                  clock,
                  viewDate,
                  currentDate,
                  tables,
                  pairing >>

\* Continuation after `await upsertPlannerState(plannerId, nextState)` in
\* loadPlannerContext; a failure only sets the form error.
SeedDone(u) ==
  /\ u \in upserts
  /\ u.kind = "seed"
  /\ u.phase \in { "ok", "err", "denied" }
  /\ upserts' = upserts \ {u}
  /\ formError' = [ formError EXCEPT ![u.client] = (u.phase # "ok") \/ @ ]
  /\ FinishLoad(u.client, u.doc)
  /\ UNCHANGED << store, pushes, subscribed, session, profile, ui, state,
                  timer, nIntents, nLogouts, nStoreErrors, adopted, intentDoc, committed, failed,
                  quietFail,
                  planner_members,
                  socketOpen,
                  channels,
                  localStorage,
                  prevDoc,
                  clock,
                  viewDate,
                  currentDate,
                  tables,
                  pairing >>

\* --------------------------------------------------------------------- login
\* Signing in again from the sign-in screen: onAuthStateChange delivers the
\* session and the profile with its planner id is fetched.
Login(c) ==
  /\ ~session[c] /\ ~profile[c]
  /\ ~ui[c].planner
  /\ session' = [ session EXCEPT ![c] = TRUE ]
  /\ profile' = [ profile EXCEPT ![c] = TRUE ]
  /\ UNCHANGED << store, pushes, subscribed, loading, ui, state, queue,
                  hasHydrated, isApplyingRemote, resetPending, lastSynced,
                  timer, upserts, hyd, formError, nIntents, nLogouts,
                  nStoreErrors, adopted, intentDoc, committed, failed,
                  quietFail, planner_members, denied, socketOpen, channels,
                  localStorage,
                  prevDoc,
                  clock,
                  viewDate,
                  currentDate,
                  tables,
                  pairing >>

\* -------------------------------------------------------- pairing requests
\* Everything but the tables and the newcomers.
SyncVars ==
  << store, pushes, subscribed, session, profile, loading, ui, state,
     queue, hasHydrated, isApplyingRemote, resetPending, lastSynced,
     timer, upserts, hyd, formError, nIntents, nLogouts,
     nStoreErrors, adopted, intentDoc, committed, failed, quietFail,
     planner_members, denied, socketOpen, channels, localStorage,
     prevDoc, clock, viewDate, currentDate >>

MembersOf(planner) ==
  { r \in tables.planner_members : r.planner_id = planner }

\* An insert into planner_members with every check switched off.
AnyInsertAllowed(rows, row) == TRUE

\* What an insert into planner_members must pass: the trigger
\* enforce_planner_member_limit, the check on member_slot, the primary key
\* (planner_id, user_id), unique (planner_id, member_slot), unique (user_id).
MemberInsertAllowed(rows, row) ==
  /\ Cardinality({ r \in rows : r.planner_id = row.planner_id }) < 2
  /\ row.member_slot \in { 1, 2 }
  /\ ~ \E r \in rows : r.planner_id = row.planner_id /\ r.user_id = row.user_id
  /\ ~ \E r \in rows : r.planner_id = row.planner_id /\ r.member_slot = row.member_slot
  /\ ~ \E r \in rows : r.user_id = row.user_id

\* linkWithInviteCode, from the click to the select on invite_codes.
LinkStart(u, code) ==
  /\ pairing[u].pc = "idle" /\ pairing[u].tries < MaxTries
  /\ pairing' = [ pairing EXCEPT ![u] =
       IF code \in DOMAIN tables.invite_codes /\ tables.invite_codes[code] = "active"
       THEN [ pc |-> "link:membership", planner |-> code, slot |-> 0,
              error |-> "none", tries |-> @.tries + 1 ]
       ELSE Idle(@.tries + 1, "Invite code is invalid or already used.") ]
  /\ UNCHANGED << SyncVars, tables >>

\* The select of the user's own membership.
LinkMembership(u) ==
  /\ pairing[u].pc = "link:membership"
  /\ pairing' = [ pairing EXCEPT ![u] =
       IF \E r \in tables.planner_members : r.user_id = u
       THEN Idle(@.tries, "You are already linked to a planner.")
       ELSE [ @ EXCEPT !.pc = "link:members" ] ]
  /\ UNCHANGED << SyncVars, tables >>

\* The select of the planner's members and the choice of the slot.
LinkMembers(u) ==
  /\ pairing[u].pc = "link:members"
  /\ LET currentMembers == MembersOf(pairing[u].planner)
         usedSlots == { r.member_slot : r \in currentMembers }
     IN pairing' = [ pairing EXCEPT ![u] =
          IF Cardinality(currentMembers) >= 2
          THEN Idle(@.tries, "This planner already has 2 linked users.")
          ELSE [ @ EXCEPT !.pc = "link:insert",
                          !.slot = IF 1 \in usedSlots THEN 2 ELSE 1 ] ]
  /\ UNCHANGED << SyncVars, tables >>

\* The insert into planner_members; its error ends the request.
LinkInsert(u) ==
  /\ pairing[u].pc = "link:insert"
  /\ LET row == MemberRow(pairing[u].planner, u, pairing[u].slot)
     IN IF MemberInsertAllowed(tables.planner_members, row)
        THEN /\ tables' = [ tables EXCEPT !.planner_members = @ \cup { row } ]
             /\ pairing' = [ pairing EXCEPT ![u].pc = "link:used" ]
        ELSE /\ pairing' = [ pairing EXCEPT ![u] = Idle(@.tries, "memberError") ]
             /\ UNCHANGED tables
  /\ UNCHANGED SyncVars

\* The update of app_users and of the invite code (to 'used' where it is
\* still 'active').
LinkUsed(u) ==
  /\ pairing[u].pc = "link:used"
  /\ tables' = [ tables EXCEPT !.invite_codes[pairing[u].planner] = "used" ]
  /\ pairing' = [ pairing EXCEPT ![u] = Idle(@.tries, "none") ]
  /\ UNCHANGED SyncVars

\* createNewPlanner, from the click to the select of the user's membership.
CreateStart(u) ==
  /\ pairing[u].pc = "idle" /\ pairing[u].tries < MaxTries
  /\ pairing' = [ pairing EXCEPT ![u] =
       IF \E r \in tables.planner_members : r.user_id = u
       THEN Idle(@.tries + 1, "You are already linked to a planner.")
       ELSE [ pc |-> "create:rpc", planner |-> 0, slot |-> 1,
              error |-> "none", tries |-> @.tries + 1 ] ]
  /\ UNCHANGED << SyncVars, tables >>

\* create_planner_for_current_user: a new row of planners.
CreateRpc(u) ==
  /\ pairing[u].pc = "create:rpc"
  /\ tables' = [ tables EXCEPT !.planners = @ + 1 ]
  /\ pairing' = [ pairing EXCEPT ![u].pc = "create:insert",
                                 ![u].planner = tables.planners + 1 ]
  /\ UNCHANGED SyncVars

\* The insert of the creator as member of slot 1; its error is not looked at.
CreateInsert(u) ==
  /\ pairing[u].pc = "create:insert"
  /\ LET row == MemberRow(pairing[u].planner, u, 1)
     IN tables' = [ tables EXCEPT !.planner_members =
          IF MemberInsertAllowed(@, row) THEN @ \cup { row } ELSE @ ]
  /\ pairing' = [ pairing EXCEPT ![u].pc = "create:code" ]
  /\ UNCHANGED SyncVars

\* The insert of the invite code, which the policy lets a member of the
\* planner do, and the rest of the request (profile, seeded state).
CreateCode(u) ==
  /\ pairing[u].pc = "create:code"
  /\ IF MemberRow(pairing[u].planner, u, 1) \in tables.planner_members
     THEN /\ tables' = [ tables EXCEPT !.invite_codes =
                           [ code \in DOMAIN @ \cup { pairing[u].planner } |->
                               IF code \in DOMAIN @ THEN @[code] ELSE "active" ] ]
          /\ pairing' = [ pairing EXCEPT ![u] = Idle(@.tries, "none") ]
     ELSE /\ pairing' = [ pairing EXCEPT ![u] =
                            Idle(@.tries, "Failed to generate invite code. Try again.") ]
          /\ UNCHANGED tables
  /\ UNCHANGED SyncVars

\* ------------------------------------------------------------------ socket
\* The realtime socket of a client drops: what was published and not yet
\* delivered is lost, and nothing is delivered while it is down.
ChannelDrop(c) ==
  /\ subscribed[c] /\ socketOpen[c]
  /\ socketOpen' = [ socketOpen EXCEPT ![c] = FALSE ]
  /\ pushes' = [ pushes EXCEPT ![c] = {} ]
  /\ UNCHANGED << store, subscribed, session, profile, loading, ui, state,
                  queue, hasHydrated, isApplyingRemote, resetPending,
                  lastSynced, timer, upserts, hyd, formError, nIntents,
                  nLogouts, nStoreErrors, adopted, intentDoc, committed,
                  failed, quietFail, planner_members, denied,
                  channels,
                  localStorage,
                  prevDoc,
                  clock,
                  viewDate,
                  currentDate,
                  tables,
                  pairing >>

\* The client library reconnects the socket and rejoins the channel.  The
\* channel was subscribed with `.subscribe()` and no status callback, so no
\* code of the component runs.
ChannelReconnect(c) ==
  /\ subscribed[c] /\ ~socketOpen[c]
  /\ socketOpen' = [ socketOpen EXCEPT ![c] = TRUE ]
  /\ UNCHANGED << store, pushes, subscribed, session, profile, loading, ui,
                  state, queue, hasHydrated, isApplyingRemote, resetPending,
                  lastSynced, timer, upserts, hyd, formError, nIntents,
                  nLogouts, nStoreErrors, adopted, intentDoc, committed,
                  failed, quietFail, planner_members, denied,
                  channels,
                  localStorage,
                  prevDoc,
                  clock,
                  viewDate,
                  currentDate,
                  tables,
                  pairing >>

\* ---------------------------------------------------------------- membership
\* The planner_members row of a client's user is deleted in the database.
RevokeMember(c) ==
  /\ c \in planner_members
  /\ planner_members' = planner_members \ {c}
  /\ UNCHANGED << store, pushes, subscribed, session, profile, loading, ui,
                  state, queue, hasHydrated, isApplyingRemote, resetPending,
                  lastSynced, timer, upserts, hyd, formError, nIntents,
                  nLogouts, nStoreErrors, adopted, intentDoc, committed,
                  failed, quietFail, denied,
                  socketOpen,
                  channels,
                  localStorage,
                  prevDoc,
                  clock,
                  viewDate,
                  currentDate,
                  tables,
                  pairing >>

\* -------------------------------------------------------------------- logout
\* signOut: supabase.auth.signOut() makes onAuthStateChange run with no
\* session, then the profile and the form error are cleared.
Logout(c) ==
  /\ session[c]
  /\ PlannerView(c)
  /\ nLogouts < MaxLogouts
  /\ nLogouts' = nLogouts + 1
  /\ session' = [ session EXCEPT ![c] = FALSE ]
  /\ profile' = [ profile EXCEPT ![c] = FALSE ]
  /\ hasHydrated' = [ hasHydrated EXCEPT ![c] = FALSE ]
  /\ lastSynced' = [ lastSynced EXCEPT ![c] = EmptySignature ]
  /\ formError' = [ formError EXCEPT ![c] = FALSE ]
  /\ UNCHANGED << store, pushes, subscribed, loading, ui, state, queue,
                  isApplyingRemote, resetPending, timer, upserts, hyd,
                  nIntents, nStoreErrors, adopted, intentDoc, committed, failed,
                  quietFail,
                  planner_members,
                  denied,
                  socketOpen,
                  channels,
                  localStorage,
                  prevDoc,
                  clock,
                  viewDate,
                  currentDate,
                  tables,
                  pairing >>

\* ------------------------------------------------------------ specification
\* The state both clients are in once each has rendered, fetched the seeded
\* row, adopted it and rendered again (reached from Init by Render, FetchRow,
\* HydrateFromRow, Render, FlagReset on each client).
Hydrated(c) ==
  [ Jsonb(buildInitialPlannerState(1, 2)) EXCEPT
      !.currentUser = toPlannerUser(c), !.partner = toPlannerUser(Other(c)) ]

InitSynced ==
  /\ store = [ doc |-> Jsonb(buildInitialPlannerState(1, 2)), ver |-> 1, by |-> 0 ]
  /\ pushes = [ c \in Clients |-> {} ]
  /\ subscribed = [ c \in Clients |-> TRUE ]
  /\ session = [ c \in Clients |-> TRUE ]
  /\ profile = [ c \in Clients |-> TRUE ]
  /\ loading = [ c \in Clients |-> FALSE ]
  /\ ui = [ c \in Clients |-> [ planner |-> TRUE, loading |-> FALSE ] ]
  /\ state = [ c \in Clients |-> Hydrated(c) ]
  /\ queue = [ c \in Clients |-> <<>> ]
  /\ hasHydrated = [ c \in Clients |-> TRUE ]
  /\ isApplyingRemote = [ c \in Clients |-> FALSE ]
  /\ resetPending = [ c \in Clients |-> FALSE ]
  /\ lastSynced = [ c \in Clients |-> Signature(Hydrated(c)) ]
  /\ timer = [ c \in Clients |-> NoTimer ]
  /\ upserts = {}
  /\ hyd = [ c \in Clients |-> HydIdle ]
  /\ formError = [ c \in Clients |-> FALSE ]
  /\ nIntents = 0
  /\ nLogouts = 0
  /\ nStoreErrors = 0
  /\ adopted = [ c \in Clients |-> 1 ]
  /\ intentDoc = [ c \in Clients |-> NoDoc ]
  /\ committed = {}
  /\ quietFail = [ c \in Clients |-> FALSE ]
  /\ failed = [ c \in Clients |-> {} ]
  /\ pairing = [ u \in Newcomers |-> Idle(0, "none") ]
  /\ tables = PairedTables
  /\ currentDate = [ c \in Clients |-> SomeDay ]
  /\ viewDate = [ c \in Clients |-> SomeDay ]
  /\ clock = Clock(SomeDay, FALSE)
  /\ prevDoc = [ c \in Clients |-> NoDoc ]
  /\ localStorage = [ c \in Clients |-> NoDoc ]
  /\ channels = [ c \in Clients |-> OneChannel ]
  /\ socketOpen = [ c \in Clients |-> TRUE ]
  /\ denied = [ c \in Clients |-> FALSE ]
  /\ planner_members = Clients

\* The number of intents is bounded in every specification.
Intent ==
  /\ nIntents < MaxIntents
  /\ \/ \E c \in Clients : addActivity(c)
     \/ \E c \in Clients : \E id \in 1..MaxIntents : deleteActivity(c, id)
     \/ \E c \in Clients : addEvent(c)
     \/ \E c \in Clients : \E limit \in Limits : updateBudgetLimit(c, limit)

Engine ==
  \/ \E c \in Clients : Render(c)
  \/ \E c \in Clients : FlagReset(c)
  \/ \E c \in Clients : TimerFire(c)
  \/ \E u \in upserts : save_planner_state(u)
  \/ \E u \in upserts : SaveRejected(u)
  \/ \E u \in upserts : SaveDone(u)
  \/ \E c \in Clients : \E m \in pushes[c] : DeliverPush(c, m)

Hydration ==
  \/ \E c \in Clients : FetchRow(c)
  \/ \E c \in Clients : FetchError(c)
  \/ \E c \in Clients : HydrateFromRow(c)
  \/ \E c \in Clients : HydrateSeed(c)
  \/ \E u \in upserts : SeedDone(u)

Next ==
  \/ Intent
  \/ Engine
  \/ Hydration
  \/ \E c \in Clients : Logout(c)
  \/ \E c \in Clients : RevokeMember(c)
  \/ ExternalSave(Malformed)
  \/ \E c \in Clients : ChannelDrop(c)
  \/ \E c \in Clients : ChannelReconnect(c)
  \/ \E c \in Clients : Login(c)

Spec == Init /\ [][Next]_vars

SyncIntent ==
  /\ nIntents < MaxIntents
  /\ \/ \E c \in Clients : addActivity(c)
     \/ \E c \in Clients : \E limit \in Limits : updateBudgetLimit(c, limit)

NextSync ==
  \/ SyncIntent
  \/ Engine

SpecSync == InitSynced /\ [][NextSync]_vars

\* One intent at most, so that sign-out and loading can be explored in full.
FewIntents ==
  \E c \in Clients : nIntents < MaxFewIntents /\ addActivity(c)

NextSession ==
  \/ FewIntents
  \/ Engine
  \/ \E c \in Clients : Logout(c)

SpecSession == InitSynced /\ [][NextSession]_vars

\* The creator's client (slot 1) is synced as in InitSynced; the partner's
\* client (slot 2) has just learned the planner id and has rendered nothing.
Joiner == 2

InitJoin ==
  /\ store = [ doc |-> Jsonb(buildInitialPlannerState(1, 2)), ver |-> 1, by |-> 0 ]
  /\ pushes = [ c \in Clients |-> {} ]
  /\ subscribed = [ c \in Clients |-> c # Joiner ]
  /\ session = [ c \in Clients |-> TRUE ]
  /\ profile = [ c \in Clients |-> TRUE ]
  /\ loading = [ c \in Clients |-> FALSE ]
  /\ ui = [ c \in Clients |-> [ planner |-> c # Joiner, loading |-> FALSE ] ]
  /\ state = [ c \in Clients |->
                 IF c = Joiner THEN buildInitialPlannerState(1, 2) ELSE Hydrated(c) ]
  /\ queue = [ c \in Clients |-> <<>> ]
  /\ hasHydrated = [ c \in Clients |-> c # Joiner ]
  /\ isApplyingRemote = [ c \in Clients |-> FALSE ]
  /\ resetPending = [ c \in Clients |-> FALSE ]
  /\ lastSynced = [ c \in Clients |->
                      IF c = Joiner THEN EmptySignature ELSE Signature(Hydrated(c)) ]
  /\ timer = [ c \in Clients |-> NoTimer ]
  /\ upserts = {}
  /\ hyd = [ c \in Clients |-> HydIdle ]
  /\ formError = [ c \in Clients |-> FALSE ]
  /\ nIntents = 0
  /\ nLogouts = 0
  /\ nStoreErrors = 0
  /\ adopted = [ c \in Clients |-> IF c = Joiner THEN 0 ELSE 1 ]
  /\ intentDoc = [ c \in Clients |-> NoDoc ]
  /\ committed = {}
  /\ quietFail = [ c \in Clients |-> FALSE ]
  /\ failed = [ c \in Clients |-> {} ]
  /\ pairing = [ u \in Newcomers |-> Idle(0, "none") ]
  /\ tables = PairedTables
  /\ currentDate = [ c \in Clients |-> SomeDay ]
  /\ viewDate = [ c \in Clients |-> SomeDay ]
  /\ clock = Clock(SomeDay, FALSE)
  /\ prevDoc = [ c \in Clients |-> NoDoc ]
  /\ localStorage = [ c \in Clients |-> NoDoc ]
  /\ channels = [ c \in Clients |-> IF c = Joiner THEN NoChannel ELSE OneChannel ]
  /\ socketOpen = [ c \in Clients |-> TRUE ]
  /\ denied = [ c \in Clients |-> FALSE ]
  /\ planner_members = Clients

NextJoin ==
  \/ FewIntents
  \/ Engine
  \/ Hydration

SpecJoin == InitJoin /\ [][NextJoin]_vars

\* Only the client of slot 1 dispatches; the other client only receives.
SoloIntent ==
  /\ nIntents < MaxSoloIntents
  /\ addActivity(1)

NextSolo ==
  \/ SoloIntent
  \/ Engine

SpecSolo == InitSynced /\ [][NextSolo]_vars

\* A value of another shape is written to the store while one client is
\* synced and the other is joining.
NextShape ==
  \/ ExternalSave(Malformed)
  \/ FewIntents
  \/ Engine
  \/ Hydration

SpecShape == InitJoin /\ [][NextShape]_vars

\* The membership of the client of slot 1 can be revoked while it works.
AuthIntent ==
  /\ nIntents < MaxIntents
  /\ addActivity(1)

NextAuth ==
  \/ AuthIntent
  \/ Engine
  \/ RevokeMember(1)

SpecAuth == InitSynced /\ [][NextAuth]_vars

\* The client of slot 1 works while the socket of the client of slot 2 drops
\* and reconnects.
NextReconnect ==
  \/ AuthIntent
  \/ Engine
  \/ ChannelDrop(2)
  \/ ChannelReconnect(2)

SpecReconnect == InitSynced /\ [][NextReconnect]_vars

\* A planner that has been in use: the stored document and both clients hold
\* an activity, an event and n log entries, the newest first, written by
\* earlier sessions.
OldLogs(n) ==
  [ i \in 1..n |-> [ id |-> 0 - i, message |-> "old", userName |-> 1, ko |-> "jsonb" ] ]

\* An activity and an event created by an earlier session.
OldItem == [ id |-> 0 - 1, ko |-> "jsonb" ]

WithLogs(d, n) ==
  [ d EXCEPT !.logs = OldLogs(n),
             !.activities = << OldItem >>, !.events = << OldItem >> ]

\* One below the cap, at the cap.
LogLengths == { LogCap - 1, LogCap }

InitLogs ==
  \E n \in LogLengths :
    /\ store = [ doc |-> WithLogs(Jsonb(buildInitialPlannerState(1, 2)), n), ver |-> 1, by |-> 0 ]
    /\ pushes = [ c \in Clients |-> {} ]
    /\ subscribed = [ c \in Clients |-> TRUE ]
    /\ session = [ c \in Clients |-> TRUE ]
    /\ profile = [ c \in Clients |-> TRUE ]
    /\ loading = [ c \in Clients |-> FALSE ]
    /\ ui = [ c \in Clients |-> [ planner |-> TRUE, loading |-> FALSE ] ]
    /\ state = [ c \in Clients |-> WithLogs(Hydrated(c), n) ]
    /\ queue = [ c \in Clients |-> <<>> ]
    /\ hasHydrated = [ c \in Clients |-> TRUE ]
    /\ isApplyingRemote = [ c \in Clients |-> FALSE ]
    /\ resetPending = [ c \in Clients |-> FALSE ]
    /\ lastSynced = [ c \in Clients |-> Signature(WithLogs(Hydrated(c), n)) ]
    /\ timer = [ c \in Clients |-> NoTimer ]
    /\ upserts = {}
    /\ hyd = [ c \in Clients |-> HydIdle ]
    /\ formError = [ c \in Clients |-> FALSE ]
    /\ nIntents = 0
    /\ nLogouts = 0
    /\ nStoreErrors = 0
    /\ adopted = [ c \in Clients |-> 1 ]
    /\ intentDoc = [ c \in Clients |-> NoDoc ]
    /\ committed = {}
    /\ quietFail = [ c \in Clients |-> FALSE ]
    /\ failed = [ c \in Clients |-> {} ]
    /\ tables = PairedTables
    /\ pairing = [ u \in Newcomers |-> Idle(0, "none") ]
    /\ clock = Clock(SomeDay, FALSE)
    /\ viewDate = [ c \in Clients |-> SomeDay ]
    /\ currentDate = [ c \in Clients |-> SomeDay ]
    /\ prevDoc = [ c \in Clients |-> NoDoc ]
    /\ localStorage = [ c \in Clients |-> NoDoc ]
    /\ channels = [ c \in Clients |-> OneChannel ]
    /\ socketOpen = [ c \in Clients |-> TRUE ]
    /\ denied = [ c \in Clients |-> FALSE ]
    /\ planner_members = Clients

\* An action of the dispatch surface, from the client of slot 1.
LogIntent ==
  /\ nIntents < MaxFewIntents
  /\ \/ addActivity(1)
     \/ addEvent(1)
     \/ \E l \in Limits : updateBudgetLimit(1, l)

NextLog ==
  \/ LogIntent
  \/ Engine

SpecLog == InitLogs /\ [][NextLog]_vars

\* The client of slot 1 adds an activity or an event and, while the client
\* has the item it created last, deletes that item.
HasCreated(c) == nIntents \in Ids(state[c].activities) \cup Ids(state[c].events)

RoundTripIntent ==
  /\ nIntents < MaxIntents
  /\ \/ ~HasCreated(1) /\ addActivity(1)
     \/ ~HasCreated(1) /\ addEvent(1)
     \/ deleteActivity(1, nIntents)
     \/ deleteEvent(1, nIntents)

NextRoundTrip ==
  \/ RoundTripIntent
  \/ Engine

SpecRoundTrip == InitLogs /\ [][NextRoundTrip]_vars

\* The client of slot 1 creates goals and confirms the deletion of a goal.
GoalIntent ==
  /\ nIntents < MaxIntents
  /\ \/ addSharedGoal(1)
     \/ addIndividualGoal(1)
     \/ \E key \in GoalKeys : \E id \in 1..MaxIntents :
          confirmDeleteGoal(1, key, id)

NextGoals ==
  \/ GoalIntent
  \/ Engine

SpecGoals == InitSynced /\ [][NextGoals]_vars

\* The goals the detail modal is opened on.  Created by the goal modal: a
\* savings goal of 1000 and a checklist goal, both without entries; after
\* use: the savings goal with a contribution of 100 and a checklist goal with
\* two of three tasks done; from the store: a goal whose financialTarget is 0
\* or negative (the goal modal refuses such a target, the store does not).
OldGoalId == 0 - 1

GoalInputs ==
  { Goal(OldGoalId, TRUE, 1000, <<>>, <<>>, 0, 0, "Not Started"),
    Goal(OldGoalId, FALSE, 0, <<>>, <<>>, 0, 0, "Not Started"),
    Goal(OldGoalId, TRUE, 1000, << [ id |-> 0 - 2, amount |-> 100 ] >>, <<>>,
         100, 10 * Scale, "In Progress"),
    Goal(OldGoalId, FALSE, 0, <<>>,
         << [ id |-> 0 - 2, completed |-> TRUE ],
            [ id |-> 0 - 3, completed |-> TRUE ],
            [ id |-> 0 - 4, completed |-> FALSE ] >>,
         0, 67 * Scale, "In Progress"),
    Goal(OldGoalId, TRUE, 0, <<>>, <<>>, 0, 0, "Not Started"),
    Goal(OldGoalId, TRUE, 0 - 1000, <<>>, <<>>, 0, 0, "Not Started"),
    Goal(OldGoalId, TRUE, 25000, <<>>, <<>>, 0, 0, "Not Started") }

WithGoal(d, g) == [ d EXCEPT !.sharedGoals = << g >> ]

\* What is typed in the input field of the modal, and in the target field of
\* its edit form.
InputValues == { 0 - 50, 150, 2000, 24999 }
ParsedTargets == { 0, 500 }
TaskIds == { 0 - 2, 0 - 3, 0 - 4 } \cup (1..MaxGoalOps)

InitGoal ==
  \E g \in GoalInputs :
    /\ store = [ doc |-> WithGoal(Jsonb(buildInitialPlannerState(1, 2)), g), ver |-> 1, by |-> 0 ]
    /\ pushes = [ c \in Clients |-> {} ]
    /\ subscribed = [ c \in Clients |-> TRUE ]
    /\ session = [ c \in Clients |-> TRUE ]
    /\ profile = [ c \in Clients |-> TRUE ]
    /\ loading = [ c \in Clients |-> FALSE ]
    /\ ui = [ c \in Clients |-> [ planner |-> TRUE, loading |-> FALSE ] ]
    /\ state = [ c \in Clients |-> WithGoal(Hydrated(c), g) ]
    /\ queue = [ c \in Clients |-> <<>> ]
    /\ hasHydrated = [ c \in Clients |-> TRUE ]
    /\ isApplyingRemote = [ c \in Clients |-> FALSE ]
    /\ resetPending = [ c \in Clients |-> FALSE ]
    /\ lastSynced = [ c \in Clients |-> Signature(WithGoal(Hydrated(c), g)) ]
    /\ timer = [ c \in Clients |-> NoTimer ]
    /\ upserts = {}
    /\ hyd = [ c \in Clients |-> HydIdle ]
    /\ formError = [ c \in Clients |-> FALSE ]
    /\ nIntents = 0
    /\ nLogouts = 0
    /\ nStoreErrors = 0
    /\ adopted = [ c \in Clients |-> 1 ]
    /\ intentDoc = [ c \in Clients |-> NoDoc ]
    /\ committed = {}
    /\ quietFail = [ c \in Clients |-> FALSE ]
    /\ failed = [ c \in Clients |-> {} ]
    /\ tables = PairedTables
    /\ pairing = [ u \in Newcomers |-> Idle(0, "none") ]
    /\ clock = Clock(SomeDay, FALSE)
    /\ viewDate = [ c \in Clients |-> SomeDay ]
    /\ currentDate = [ c \in Clients |-> SomeDay ]
    /\ prevDoc = [ c \in Clients |-> NoDoc ]
    /\ localStorage = [ c \in Clients |-> NoDoc ]
    /\ channels = [ c \in Clients |-> OneChannel ]
    /\ socketOpen = [ c \in Clients |-> TRUE ]
    /\ denied = [ c \in Clients |-> FALSE ]
    /\ planner_members = Clients

\* The operations of the goal detail modal, by the client of slot 1.
GoalOp ==
  /\ nIntents < MaxGoalOps
  /\ \/ \E v \in InputValues : handleAction(1, OldGoalId, v)
     \/ \E t \in TaskIds : toggleTask(1, OldGoalId, t)
     \/ \E t \in TaskIds : deleteTask(1, OldGoalId, t)
     \/ \E p \in ParsedTargets : saveGoalDetails(1, OldGoalId, p)

NextGoalOps == GoalOp

SpecGoalOps == InitGoal /\ [][NextGoalOps]_vars

\* The planner holds one event that was put on the calendar on one of these
\* days: the last day of a long month, the leap day, the last day of a month
\* that begins on a Friday, a day in the middle of the month of today, a day
\* before and a day after every month that can be viewed.
TemplateDays ==
  { [ y |-> 2024, m |-> 0, d |-> 31 ], [ y |-> 2024, m |-> 1, d |-> 29 ],
    [ y |-> 2024, m |-> 2, d |-> 31 ], [ y |-> 2024, m |-> 7, d |-> 10 ],
    [ y |-> 2023, m |-> 10, d |-> 25 ], [ y |-> 2025, m |-> 4, d |-> 1 ] }

\* Estimated 50; the actual cost is recorded as 0 for the events of January
\* and May, as 30 for those of February and March, and not recorded for the
\* others.
Templates ==
  { CalendarEvent(0 - 1, day, r, 50, day.m < 5,
                  IF day.m \in { 0, 4 } THEN 0 ELSE 30) :
      day \in TemplateDays, r \in { "None", "Weekly", "Monthly", "Yearly" } }

WithEvents(d, e) == [ d EXCEPT !.events = << e >> ]

\* new Date() when the views are opened: the middle and the last day of a
\* month of 31 days.
Todays == { [ y |-> 2024, m |-> 7, d |-> 15 ], [ y |-> 2024, m |-> 7, d |-> 31 ] }

InitMonth ==
  \E e \in Templates : \E today \in Todays : \E west \in BOOLEAN :
    /\ store = [ doc |-> WithEvents(Jsonb(buildInitialPlannerState(1, 2)), e), ver |-> 1, by |-> 0 ]
    /\ pushes = [ c \in Clients |-> {} ]
    /\ subscribed = [ c \in Clients |-> TRUE ]
    /\ session = [ c \in Clients |-> TRUE ]
    /\ profile = [ c \in Clients |-> TRUE ]
    /\ loading = [ c \in Clients |-> FALSE ]
    /\ ui = [ c \in Clients |-> [ planner |-> TRUE, loading |-> FALSE ] ]
    /\ state = [ c \in Clients |-> WithEvents(Hydrated(c), e) ]
    /\ queue = [ c \in Clients |-> <<>> ]
    /\ hasHydrated = [ c \in Clients |-> TRUE ]
    /\ isApplyingRemote = [ c \in Clients |-> FALSE ]
    /\ resetPending = [ c \in Clients |-> FALSE ]
    /\ lastSynced = [ c \in Clients |-> Signature(WithEvents(Hydrated(c), e)) ]
    /\ timer = [ c \in Clients |-> NoTimer ]
    /\ upserts = {}
    /\ hyd = [ c \in Clients |-> HydIdle ]
    /\ formError = [ c \in Clients |-> FALSE ]
    /\ nIntents = 0
    /\ nLogouts = 0
    /\ nStoreErrors = 0
    /\ adopted = [ c \in Clients |-> 1 ]
    /\ intentDoc = [ c \in Clients |-> NoDoc ]
    /\ committed = {}
    /\ quietFail = [ c \in Clients |-> FALSE ]
    /\ failed = [ c \in Clients |-> {} ]
    /\ tables = PairedTables
    /\ pairing = [ u \in Newcomers |-> Idle(0, "none") ]
    /\ currentDate = [ c \in Clients |-> today ]
    /\ viewDate = [ c \in Clients |-> today ]
    /\ clock = Clock(today, west)
    /\ prevDoc = [ c \in Clients |-> NoDoc ]
    /\ localStorage = [ c \in Clients |-> NoDoc ]
    /\ channels = [ c \in Clients |-> OneChannel ]
    /\ socketOpen = [ c \in Clients |-> TRUE ]
    /\ denied = [ c \in Clients |-> FALSE ]
    /\ planner_members = Clients

\* The number of months between a date and today.
MonthsAway(date) ==
  LET n == (date.y - clock.today.y) * 12 + (date.m - clock.today.m)
  IN IF n < 0 THEN 0 - n ELSE n

\* The client of slot 1 pages through the months of the budget dashboard
\* and of the calendar view.
MonthStep ==
  \/ \E n \in { 0 - 1, 1 } :
       BudgetMonth(1, n) /\ MonthsAway(viewDate'[1]) <= MaxMonthsAway
  \/ BudgetCurrent(1)
  \/ \E n \in { 0 - 1, 1 } :
       CalendarMonth(1, n) /\ MonthsAway(currentDate'[1]) <= MaxMonthsAway
  \/ CalendarCurrent(1)

NextMonth == MonthStep

SpecMonth == InitMonth /\ [][NextMonth]_vars

\* The newcomers create planners and link with the codes of the planners
\* that exist, in any interleaving of their requests.
NextPairing ==
  \/ \E u \in Newcomers : \E code \in 1..(1 + Cardinality(Newcomers)) : LinkStart(u, code)
  \/ \E u \in Newcomers : LinkMembership(u)
  \/ \E u \in Newcomers : LinkMembers(u)
  \/ \E u \in Newcomers : LinkInsert(u)
  \/ \E u \in Newcomers : LinkUsed(u)
  \/ \E u \in Newcomers : CreateStart(u)
  \/ \E u \in Newcomers : CreateRpc(u)
  \/ \E u \in Newcomers : CreateInsert(u)
  \/ \E u \in Newcomers : CreateCode(u)

SpecPairing == InitSynced /\ [][NextPairing]_vars

\* Signing out and in again: the channel is removed and a new one created.
NextChannel ==
  \/ FewIntents
  \/ Engine
  \/ Hydration
  \/ \E c \in Clients : Logout(c)
  \/ \E c \in Clients : Login(c)

SpecChannel == InitSynced /\ [][NextChannel]_vars

\* ------------------------------------------------------------------ claims
\* The part of a document the two members share, whatever the key order.
SharedPart(d) ==
  LET j == Jsonb(d)
  IN << j.activities, j.events, j.sharedGoals, j.individualGoals, j.budget, j.logs >>

\* Nothing is pending anywhere: no update awaits a render, no debounce timer
\* or flag reset is scheduled, no upsert is in flight, every push is delivered;
\* and every upsert issued so far succeeded.
Quiescent ==
  /\ upserts = {}
  /\ \A c \in Clients : failed[c] = {}
  /\ \A c \in Clients :
       /\ hasHydrated[c] /\ session[c] /\ subscribed[c]
       /\ hyd[c] = HydIdle
       /\ ~Dirty(c)
       /\ ~timer[c].set
       /\ ~resetPending[c]
       /\ pushes[c] = {}

\* C1: whenever the system is quiescent, each hydrated client's local
\* document (activities, events, goals, budget, logs) equals the store's.
C1_QuiescentClientsEqualStore ==
  Quiescent => \A c \in Clients : SharedPart(state[c]) = SharedPart(store.doc)

\* The queue holds snapshots only: whatever the next render commits was never
\* locally mutated.
OnlySnapshots(q) == q # <<>> /\ \A i \in 1..Len(q) : q[i].t = "set"

\* C2: a push whose signature differs from lastSyncedSignature replaces the
\* local document and sets lastSyncedSignature to its signature, and applying
\* it starts no debounce timer and issues no upsert: neither the handler nor
\* the render that commits nothing but snapshots touches the timer.
C2_RemoteApplyNeverSaves ==
  [][ \A c \in Clients :
        /\ \A m \in pushes[c] :
             DeliverPush(c, m) /\ Signature(m.doc) # lastSynced[c]
               => /\ lastSynced'[c] = Signature(m.doc)
                  /\ queue'[c] = Append(queue[c], SetUpdate(m.doc))
                  /\ timer'[c] = timer[c]
                  /\ upserts' = upserts
        /\ Render(c) /\ OnlySnapshots(queue[c])
             => /\ state'[c] = queue[c][Len(queue[c])].value
                /\ timer'[c] = timer[c] ]_vars

\* C3: a push that carries the document the client itself upserted changes
\* neither its document (no update is queued) nor its lastSyncedSignature.
C3_OwnEchoDiscarded ==
  [][ \A c \in Clients : \A m \in pushes[c] :
        DeliverPush(c, m) /\ m.by = c
          => /\ queue'[c] = queue[c]
             /\ lastSynced'[c] = lastSynced[c] ]_vars

\* C4: when the debounce timer fires after a burst of intents (every intent
\* of the burst has been rendered), the one upsert it issues carries the
\* document produced by the last intent, not an intermediate one.
C4_BurstFlushesLastIntent ==
  [][ \A c \in Clients :
        TimerFire(c) /\ ~HasIntent(queue[c]) /\ intentDoc[c] # NoDoc
          => Jsonb(timer[c].doc) = Jsonb(intentDoc[c]) ]_vars

\* The client has nothing left to do: hydrated, signed in, nothing awaiting a
\* render, no timer or flag reset scheduled, none of its upserts in flight,
\* and none of its upserts has failed.
LocalIdle(c) ==
  /\ hasHydrated[c] /\ session[c] /\ profile[c]
  /\ hyd[c] = HydIdle
  /\ ~Dirty(c)
  /\ ~timer[c].set
  /\ ~resetPending[c]
  /\ failed[c] = {}
  /\ \A u \in upserts : u.client # c

\* C5: every intent starts the debounce timer, so once a hydrated client is
\* idle the change of every intent its document shows (its log entry) has
\* been part of a document written to the store.
C5_IntentReachesStore ==
  \A c \in Clients : LocalIdle(c) => Ids(state[c].logs) \subseteq committed

\* C6: hydration seeds and writes an initial document only when the store
\* holds none; a stored document is never replaced by a seed.
C6_SeedOnlyWhenStoreEmpty ==
  [][ /\ \A c \in Clients : HydrateSeed(c) => store.doc = NoDoc
      /\ \A u \in upserts :
           save_planner_state(u) /\ u.kind = "seed" => store.doc = NoDoc ]_vars

\* C7: logout cancels the pending debounce timer, no upsert is issued by a
\* signed-out client, and the render after logout closes the subscription.
C7_NoWriteAfterLogout ==
  [][ \A c \in Clients :
        /\ Logout(c) => ~timer'[c].set
        /\ TimerFire(c) => session[c]
        /\ Render(c) /\ ~profile[c] => ~subscribed'[c] ]_vars

\* C8: the store version of the snapshot a client adopts never decreases.
C8_NeverAdoptsOlderSnapshot ==
  [][ \A c \in Clients : adopted'[c] >= adopted[c] ]_vars

\* The document all updates so far amount to, rendered or not.
Pending(c) == ApplyQueue(state[c], queue[c])

\* C9: an addActivity intent applies to the document produced by the
\* previous intents and snapshots: afterwards the activities are those of that
\* document plus the new one, and every other collection is as it was.
C9_IntentsApplyInOrder ==
  [][ \A c \in Clients :
        addActivity(c)
          => LET before == Pending(c)
                 after == ApplyQueue(state'[c], queue'[c])
             IN /\ after.activities = Append(before.activities, NewItem)
                /\ after.events = before.events
                /\ after.budget = before.budget
                /\ Tail(after.logs) = before.logs ]_vars

\* C10: when an upsert fails the form error is set and the local document,
\* the queued updates, lastSyncedSignature and the debounce timer are left as
\* they were; and once an upsert of a client has failed with nothing else
\* pending there, that client issues no upsert until its next intent.
C10_FailureSurfacedNoRetry ==
  [][ /\ \A u \in upserts :
           u.kind = "save" /\ u.phase = "err" /\ upserts' = upserts \ {u}
             => /\ formError'[u.client]
                /\ state' = state /\ queue' = queue
                /\ lastSynced' = lastSynced
                /\ timer' = timer
      /\ \A c \in Clients :
           quietFail[c] /\ nIntents' = nIntents
             => /\ ~timer'[c].set
                /\ \A u \in upserts' \ upserts : u.client # c ]_vars

\* C11: the local document of a client is a PlannerState at all times: a
\* stored value of another shape, pushed or fetched, is never adopted.
C11_MalformedNeverAdopted ==
  \A c \in Clients : IsPlannerState(state[c])

\* C12: when an upsert is refused as not authorized the form error is set,
\* and from then on the client issues no upsert until it has hydrated again,
\* whatever intents follow.
C12_NoUpsertAfterDenied ==
  [][ /\ \A u \in upserts :
           u.kind = "save" /\ u.phase = "denied" /\ upserts' = upserts \ {u}
             => formError'[u.client]
      /\ \A c \in Clients : TimerFire(c) => ~denied[c] ]_vars

\* C13: when the socket of a client reconnects, the hydration fetch is run
\* again (which is what would bring in a write committed while it was down).
C13_ReconnectRehydrates ==
  [][ \A c \in Clients :
        ChannelReconnect(c) => hyd'[c].pc = "fetching" ]_vars

\* C14: a client holds at most one open channel at any time, and none once
\* a render has committed that there is no planner id.
C14_AtMostOneSubscription ==
  \A c \in Clients :
    /\ channels[c].open <= 1
    /\ ~ui[c].planner => channels[c].open = 0

\* A client has signed out and in again and holds its second channel.
C14_Resubscribed ==
  \E c \in Clients :
    /\ nLogouts > 0
    /\ ui[c].planner /\ hasHydrated[c]
    /\ channels[c].made = 2
    /\ channels[c].open = 1

\* C15: every local change of the document is written to the local storage
\* entry couple_planner_data, so that the entry read at the next startup is
\* the last local document.
C15_LocalChangeWrittenToBlob ==
  [][ \A c \in Clients :
        nIntents' > nIntents /\ state'[c] # state[c]
          => localStorage'[c] = state'[c] ]_vars

\* C16: a dispatched action puts exactly one new entry in front of the log
\* and leaves the entries that were there unchanged and in order behind it;
\* the log never holds more than 50 entries, the oldest are dropped first.
C16_OneLogEntryPerAction ==
  [][ \A c \in Clients :
        /\ Len(state'[c].logs) <= LogCap
        /\ nIntents' > nIntents /\ state'[c] # state[c]
             => LET old == state[c].logs
                    new == state'[c].logs
                IN /\ Len(new) = Min(LogCap, Len(old) + 1)
                   /\ new[1].id = FreshId
                   /\ \A i \in 1..Len(old) : old[i].id # FreshId
                   /\ \A i \in 2..Len(new) : new[i] = old[i - 1] ]_vars

\* A log that was full got a new entry in front and lost its oldest one.
C16_FullLogShifted ==
  \E c \in Clients :
    /\ Len(state[c].logs) = LogCap
    /\ state[c].logs[1].id = nIntents
    /\ nIntents > 0
    /\ state[c].logs[LogCap] = OldLogs(LogCap)[LogCap - 1]

\* The content of the entries of a log, whatever the key order.
LogContent(d) == JsonbObjects(d.logs)

\* Client c deletes, by the action of this step, the activity or event that
\* its previous action created.
DeletesCreated(c) ==
  /\ nIntents' = nIntents + 1
  /\ state'[c] # state[c]
  /\ \/ /\ nIntents \in Ids(state[c].activities)
        /\ nIntents \notin Ids(state'[c].activities)
     \/ /\ nIntents \in Ids(state[c].events)
        /\ nIntents \notin Ids(state'[c].events)

\* Every field but logs of the document after the delete is the field of the
\* document before the add.
SameButLogs(d, r) ==
  LET jd == Jsonb(d)
      jr == Jsonb(r)
  IN /\ jd.activities = jr.activities /\ jd.events = jr.events
     /\ jd.sharedGoals = jr.sharedGoals
     /\ jd.individualGoals = jr.individualGoals
     /\ jd.budget = jr.budget
     /\ d.currentUser = r.currentUser /\ d.partner = r.partner

\* C17 as stated: adding an activity or event with a fresh id and deleting
\* it gives the document D back in every field but logs, and all log entries
\* of D are still there, unmodified and in order, behind the two new ones.
C17_AddDeleteKeepsAllLogs ==
  [][ \A c \in Clients :
        DeletesCreated(c)
          => /\ SameButLogs(prevDoc[c], state'[c])
             /\ Len(state'[c].logs) = Len(prevDoc[c].logs) + 2
             /\ \A i \in 1..Len(prevDoc[c].logs) :
                  LogContent(state'[c])[i + 2] = LogContent(prevDoc[c])[i] ]_vars

\* C17 with the cap: adding and deleting gives D back in every field but
\* logs; behind the two new entries are the entries of D, unmodified and in
\* order, without those that no longer fit in the 50 entries of the log.
C17_AddDeleteKeepsLogsUpToCap ==
  [][ \A c \in Clients :
        DeletesCreated(c)
          => /\ SameButLogs(prevDoc[c], state'[c])
             /\ Len(state'[c].logs) = Min(LogCap, Len(prevDoc[c].logs) + 2)
             /\ state'[c].logs[1].id = nIntents + 1
             /\ state'[c].logs[2].id = nIntents
             /\ \A i \in 1..Min(LogCap - 2, Len(prevDoc[c].logs)) :
                  LogContent(state'[c])[i + 2] = LogContent(prevDoc[c])[i] ]_vars

\* An item was added and deleted again: it is in the document the last
\* action was applied to, created by the action before, and gone now.
C17_RoundTripDone ==
  \E c \in Clients :
    /\ nIntents > 1
    /\ prevDoc[c] # NoDoc
    /\ (nIntents - 1) \in Ids(prevDoc[c].activities) \cup Ids(prevDoc[c].events)
    /\ (nIntents - 1) \notin Ids(state[c].activities) \cup Ids(state[c].events)
    /\ state[c].logs[1].id = nIntents

\* C18: deleting a shared or an individual goal by id removes exactly that
\* goal from its collection and leaves every other goal unchanged.
C18_DeleteGoalRemovesIt ==
  [][ \A c \in Clients : \A key \in GoalKeys : \A id \in 1..MaxIntents :
        confirmDeleteGoal(c, key, id)
          => /\ state'[c][key] = Without(state[c][key], id)
             /\ \A other \in GoalKeys \ {key} :
                  state'[c][other] = state[c][other] ]_vars

\* C19: after any sequence of goal operations every goal has a progress
\* between 0 and 100, and the status Completed exactly when it is 100.
C19_ProgressWithinBounds ==
  \A c \in Clients :
    \A i \in 1..Len(state[c].sharedGoals) :
      LET goal == state[c].sharedGoals[i]
      IN /\ 0 <= goal.progressPercentage
         /\ goal.progressPercentage <= 100 * Scale
         /\ goal.status = "Completed" <=> goal.progressPercentage = 100 * Scale

DatesOf(events) == { events[i].date : i \in 1..Len(events) }

OncePerDate(events, dates) ==
  /\ DatesOf(events) = dates
  /\ Len(events) = Cardinality(dates)

\* The days of a month that are not earlier than the date of a template.
DaysFrom(e, y, m) ==
  { day \in { NewDate(y, m, i) : i \in 1..DaysInMonth(y, m) } :
      getTime(day) >= getTime(e.date) }

WeeklyDays(e, y, m) == { day \in DaysFrom(e, y, m) : getDay(day) = getDay(e.date) }

MonthlyDays(e, y, m) == { day \in DaysFrom(e, y, m) : day.d = e.date.d }

YearlyDays(e, y, m) == { day \in MonthlyDays(e, y, m) : day.m = e.date.m }

\* C22: a Monthly template has its occurrence on the day of the month of the
\* template, a Yearly template on its month and day, never before the date
\* of the template; in a month without that day there is no occurrence, on
\* no day.
C22_MonthlyYearlyOccurrences ==
  \A c \in Clients :
    \A i \in 1..Len(state[c].events) :
      LET e == state[c].events[i]
          budget == ProjectEvent(e, viewDate[c].y, viewDate[c].m)
          calendar == ExpandDays(<< e >>, getDaysInMonth(currentDate[c]))
      IN /\ e.recurrence = "Monthly"
              => /\ OncePerDate(budget, MonthlyDays(e, viewDate[c].y, viewDate[c].m))
                 /\ OncePerDate(calendar,
                                MonthlyDays(e, currentDate[c].y, currentDate[c].m))
         /\ e.recurrence = "Yearly"
              => /\ OncePerDate(budget, YearlyDays(e, viewDate[c].y, viewDate[c].m))
                 /\ OncePerDate(calendar,
                                YearlyDays(e, currentDate[c].y, currentDate[c].m))

\* A Monthly template of a 31st: the budget dashboard shows a later month
\* without a 31st, with no occurrence, and the calendar a later month with a
\* 31st, with its one occurrence.
C22_ShortMonthSkipped ==
  \E c \in Clients :
    /\ Len(state[c].events) = 1
    /\ state[c].events[1].recurrence = "Monthly"
    /\ state[c].events[1].date.d = 31
    /\ getTime(viewDate[c]) > getTime(state[c].events[1].date)
    /\ DaysInMonth(viewDate[c].y, viewDate[c].m) < 31
    /\ monthlyEvents(c) = << >>
    /\ getTime(currentDate[c]) > getTime(viewDate[c])
    /\ DaysInMonth(currentDate[c].y, currentDate[c].m) = 31
    /\ Len(calendarEvents(c)) = 1
    /\ calendarEvents(c)[1].date.d = 31

\* The recorded actual cost of an event, its estimated cost when none is
\* recorded, summed over a sequence of events.
RECURSIVE SumRecorded(_)
SumRecorded(events) ==
  IF events = << >> THEN 0
  ELSE (IF Head(events).hasActual THEN Head(events).actualCost
                                  ELSE Head(events).estimatedCost)
         + SumRecorded(Tail(events))

C24_InsightsMatchBudget ==
  \A c \in Clients :
    viewDate[c].m = clock.today.m /\ viewDate[c].y = clock.today.y
      => /\ insightsEvents(c) = monthlyEvents(c)
         /\ insightsTotalActual(c) = totalActual(c)

RECURSIVE SumSpent(_, _)
SumSpent(weeks, n) == IF n = 0 THEN 0 ELSE weeks[n] + SumSpent(weeks, n - 1)

\* The bucket of a day of the viewed month: the week of the month, at most 5.
Bucket(c, day) ==
  Min(WeekCount,
      (day.d + getDay(NewDate(viewDate[c].y, viewDate[c].m, 1)) + 6) \div 7)

\* C27: every event of the viewed month is counted in exactly one of the
\* five weekly buckets, the one of ceil((day of month + weekday offset of the
\* first of the month) / 7) clipped into 1..5, and the five weekly totals
\* add up to the totalActual of the month.
C27_WeeklyBucketsCoverMonth ==
  \A c \in Clients :
    /\ SumSpent(weeklyData(c), WeekCount) = totalActual(c)
    /\ \A w \in 1..WeekCount :
         weeklyData(c)[w] =
           SumCost(SelectSeq(monthlyEvents(c), LAMBDA e : Bucket(c, e.date) = w))

\* The documents whose signatures the engine compares: the stored one, the
\* pushed ones and each client's own.
ComparedDocs ==
  { store.doc } \cup { state[c] : c \in Clients }
    \cup UNION { { m.doc : m \in pushes[c] } : c \in Clients }

\* Same fields with the same values, arrays in order, whatever the order in
\* which the keys of an object are held.
StructurallyEqual(d1, d2) == Jsonb(d1) = Jsonb(d2)

\* C25: two documents have equal signatures exactly when they are
\* structurally equal, whatever the order in which an object's keys are
\* stored or given back by the store.
C25_SignatureIffStructurallyEqual ==
  \A d1, d2 \in { d \in ComparedDocs : IsPlannerState(d) } :
    Signature(d1) = Signature(d2) <=> StructurallyEqual(d1, d2)

\* C26: under any interleaving of createNewPlanner and linkWithInviteCode
\* by different users a planner never has more than two members, its members
\* hold distinct slots of {1, 2}, and no user is a member of two planners.
C26_AtMostTwoMembers ==
  /\ \A p \in 1..tables.planners :
       /\ Cardinality(MembersOf(p)) <= 2
       /\ \A r1, r2 \in MembersOf(p) :
            /\ r1.member_slot \in { 1, 2 }
            /\ r1.member_slot = r2.member_slot => r1 = r2
  /\ \A r1, r2 \in tables.planner_members :
       r1.user_id = r2.user_id => r1 = r2

\* Two newcomers linked with the code of the same new planner at the same
\* time: the planner has its two members, and the insert of the second
\* newcomer was refused.
C26_RaceRefused ==
  \E p \in 2..tables.planners : \E u \in Newcomers :
    /\ Cardinality(MembersOf(p)) = 2
    /\ pairing[u] = Idle(1, "memberError")
    /\ \A r \in tables.planner_members : r.user_id # u

\* C28: whenever a debounce timer fires, the document it upserts is the
\* client's local document of that moment: a timer started before a remote
\* snapshot was applied does not write the local document it replaced.
C28_TimerWritesCurrentDoc ==
  [][\A c \in Clients : TimerFire(c) => timer[c].doc = state[c]]_vars

\* C29: after hydration a client's local document names the client's own
\* member as currentUser and the other member as partner, also after it
\* applied a pushed document that the partner's client wrote.
C29_OwnPerspectiveKept ==
  \A c \in Clients :
    hasHydrated[c] =>
      /\ state[c].currentUser = toPlannerUser(c)
      /\ state[c].partner = toPlannerUser(Other(c))

\* C30: a goal has the status Completed only if it is fulfilled: a goal with
\* a financial target when its contributions sum up to the target or more, a
\* goal of tasks when every task is completed.
C30_CompletedOnlyIfFulfilled ==
  \A c \in Clients :
    \A i \in 1..Len(state[c].sharedGoals) :
      LET goal == state[c].sharedGoals[i]
      IN goal.status = "Completed" =>
           IF goal.hasTarget
           THEN SumAmounts(goal.contributions) >= goal.financialTarget
           ELSE Completed(goal.tasks) = Len(goal.tasks)

====
